---------------------------- MODULE Spec2Model ----------------------------
(***************************************************************************)
(* A model of tempoch (Siderust/tempoch): the interval algebra of          *)
(* src/src/period.rs and the time-scale conversions of src/src/instant.rs, *)
(* src/tempoch-core/src/scales.rs and src/tempoch-core/src/delta_t.rs.     *)
(*                                                                         *)
(* Part 1 models the interval algebra over a totally ordered set of        *)
(* instants (the code is generic over TimeInstant: PartialOrd; instants    *)
(* are modelled as naturals).  Part 2 models f64 arithmetic bit for bit,   *)
(* and on it the eleven time scales, the leap-second lookup and Delta T.   *)
(* Part 3 models the civil UTC conversions and the C ABI of                *)
(* src/tempoch-ffi.  The machines share the variables: the interval        *)
(* machine (Spec), the merge loop of intersect_periods (SpecMerge), the    *)
(* cross-scale conversion Time<S>::to (SpecConv), the round trips through  *)
(* the canonical JD(TT) axis (SpecRoundTrip), the leap-second lookup       *)
(* (SpecLeap), Delta T and the fixed-point inverse of UT (SpecDeltaT),     *)
(* chains of conversions (SpecChain), the export to UTC (SpecUtc), the     *)
(* conversion of a period to another scale (SpecPeriodTo) and the C        *)
(* caller (SpecFfi).  SpecMergeFair and SpecDeltaTFair add the fairness    *)
(* under which the two loops are shown to end.                             *)
(***************************************************************************)
EXTENDS Integers, Sequences, FiniteSets, TLC

VARIABLES
    pc,        \* which operation has been applied ("idle" before any)
    arg_self,  \* Interval::intersection: self
    arg_other, \* Interval::intersection: other
    ret_opt,   \* Interval::intersection: the Option returned
    outer,     \* complement_within: the bounding period
    periods,   \* complement_within: the sub-periods
    gaps,      \* complement_within: the Vec returned
    a,         \* intersect_periods: first list
    b,         \* intersect_periods: second list
    result,    \* intersect_periods: the Vec returned
    cpc,       \* Time<S>::to: "idle", "to", "from_julian_day", "done"
    via,       \* the entry point: "to" (Time::to) or "From" (From::from)
    scale_s,   \* the source scale S
    scale_t,   \* the target scale T
    quantity,  \* self.quantity, an f64
    canon,     \* the JD(TT) handed to from_julian_day
    converted, \* the quantity of the Time<T> returned
    calls,     \* the TimeScale functions called so far, in order
    rt_dir,    \* round trip: "idle", "native" (S -> JD(TT) -> S) or
               \* "canonical" (JD(TT) -> S -> JD(TT))
    rt_scale,  \* round trip: the scale S
    rt_in,     \* round trip: the value it starts from
    rt_mid,    \* round trip: the value after the first conversion
    rt_back,   \* round trip: the value after the second conversion
    ip_i,      \* intersect_periods, step by step: the index i
    ip_j,      \* intersect_periods, step by step: the index j
    ip_iter,   \* intersect_periods, step by step: the iterations run so far
    lpc,       \* tai_minus_utc: "idle" or "looked_up"
    lq1,       \* tai_minus_utc: a query jd_utc
    lq2,       \* tai_minus_utc: a second query
    lr1,       \* tai_minus_utc(lq1)
    lr2,       \* tai_minus_utc(lq2)
    dpc,       \* Delta T: "idle", or the call made ("evaluated" for
               \* delta_t_seconds_from_ut)
    dt_jd,     \* delta_t_seconds_from_ut: the argument jd_ut
    dt_val,    \* delta_t_seconds_from_ut: the seconds returned
    dt_idx,    \* delta_t_table: the index i the table is read at
    dt_above,
    ut_jd_tt,  \* UT::from_jd_tt: the argument jd_tt
    ut_now,    \* UT::from_jd_tt: the local ut
    ut_evals,  \* UT::from_jd_tt: calls of delta_t_seconds_from_ut so far
    ut_hist,   \* UT::from_jd_tt: the values ut has held, oldest first  \* at a regime boundary: the seconds of the regime above it
    h_scale,   \* chained Time::to: the scale of the first instant
    h_value,   \* chained Time::to: the quantity of the first instant
    h_path,    \* chained Time::to: the target scales of the calls so far
    h_now,     \* chained Time::to: the quantity of the latest instant
    u_fn,      \* UTC export: "idle", "to_utc" or "period_to"
    u_scale,   \* UTC export: the scale S of the instants
    u_start,   \* UTC export: the instant (the period's start)
    u_end,     \* UTC export: the period's end (the instant again for to_utc)
    u_ret,     \* UTC export: the value returned, if the call returned
    u_exit,    \* UTC export: "returned" or "panicked"
    u_target,  \* period conversion: the target scale
    f_fn,      \* FFI: the exported function called ("idle" before any)
    f_args,    \* FFI: its by-value arguments
    f_null,    \* FFI: whether the out pointer is null
    f_panic,   \* FFI: whether the core logic it calls panics
    f_res      \* FFI: what the call left: [exit, status, ret, out], with
               \* exit "returned" or the way a panic left the function,
               \* status the TempochStatus returned, ret the f64 returned,
               \* out the memory behind the out pointer

pvars == <<pc, arg_self, arg_other, ret_opt, outer, periods, gaps, a, b, result>>

cvars == <<cpc, via, scale_s, scale_t, quantity, canon, converted, calls>>

rvars == <<rt_dir, rt_scale, rt_in, rt_mid, rt_back>>

mvars == <<ip_i, ip_j, ip_iter>>

lvars == <<lpc, lq1, lq2, lr1, lr2>>

svars == <<ut_jd_tt, ut_now, ut_evals, ut_hist>>

dvars == <<dpc, dt_jd, dt_val, dt_idx, dt_above, svars>>

hvars == <<h_scale, h_value, h_path, h_now>>

uvars == <<u_fn, u_scale, u_start, u_end, u_ret, u_exit, u_target>>

fvars == <<f_fn, f_args, f_null, f_panic, f_res>>

\* The variables of the machines added to the first three.
xvars == <<lvars, dvars, hvars, uvars, fvars>>

vars == <<pvars, cvars, rvars, mvars, xvars>>

-----------------------------------------------------------------------------
(* Bounds of the interval model. *)

\* Instants are 0..MaxT.
MaxT == 3

\* Interval lists hold at most MaxLen intervals.
MaxLen == 2

-----------------------------------------------------------------------------
(* Option<T> *)

None == <<>>

Some(v) == <<v>>

-----------------------------------------------------------------------------
(* Interval<T> *)

Interval_new(start, end) == [start |-> start, end |-> end]

intersection_mut_le(self, other) ==
    LET start == IF self.start >= other.start THEN self.start ELSE other.start
        end   == IF self.end <= other.end THEN self.end ELSE other.end
    IN  IF start <= end THEN Some(Interval_new(start, end)) ELSE None

intersection_mut_self(self, other) ==
    LET start == self.start
        end   == IF self.end <= other.end THEN self.end ELSE other.end
    IN  IF start < end THEN Some(Interval_new(start, end)) ELSE None

intersection(self, other) ==
    LET start == IF self.start >= other.start THEN self.start ELSE other.start
        end   == IF self.end <= other.end THEN self.end ELSE other.end
    IN  IF start < end THEN Some(Interval_new(start, end)) ELSE None

-----------------------------------------------------------------------------
(* complement_within: the sweep over `periods`, then the trailing gap. *)

cw_body_mut_always(p, st) ==
    LET gaps1   == IF p.start > st.cursor
                   THEN Append(st.gaps, Interval_new(st.cursor, p.start))
                   ELSE st.gaps
    IN  [cursor |-> p.end, gaps |-> gaps1]

\* One iteration of `for p in periods`, on the loop state [cursor, gaps].
cw_body(p, st) ==
    LET gaps1   == IF p.start > st.cursor
                   THEN Append(st.gaps, Interval_new(st.cursor, p.start))
                   ELSE st.gaps
        cursor1 == IF p.end > st.cursor THEN p.end ELSE st.cursor
    IN  [cursor |-> cursor1, gaps |-> gaps1]

RECURSIVE cw_loop(_, _, _)
cw_loop(ps, k, st) ==
    IF k > Len(ps) THEN st ELSE cw_loop(ps, k + 1, cw_body(ps[k], st))

complement_within_mut_notrail(o, ps) ==
    cw_loop(ps, 1, [cursor |-> o.start, gaps |-> <<>>]).gaps

complement_within_mut_le(o, ps) ==
    LET st == cw_loop(ps, 1, [cursor |-> o.start, gaps |-> <<>>])
    IN  IF st.cursor <= o.end
        THEN Append(st.gaps, Interval_new(st.cursor, o.end))
        ELSE st.gaps

complement_within(o, ps) ==
    LET st == cw_loop(ps, 1, [cursor |-> o.start, gaps |-> <<>>])
    IN  IF st.cursor < o.end
        THEN Append(st.gaps, Interval_new(st.cursor, o.end))
        ELSE st.gaps

-----------------------------------------------------------------------------
(* intersect_periods: the two-pointer merge.  Indices are 0-based as in    *)
(* the code; la[i + 1] is the code's a[i].                                 *)

ip_guard(la, lb, st) == st.i < Len(la) /\ st.j < Len(lb)

\* One iteration that advances i whichever interval ends first.
ip_body_mut_i(la, lb, st) ==
    LET ai    == la[st.i + 1]
        bj    == lb[st.j + 1]
        start == IF ai.start >= bj.start THEN ai.start ELSE bj.start
        end   == IF ai.end <= bj.end THEN ai.end ELSE bj.end
        res1  == IF start < end
                 THEN Append(st.result, Interval_new(start, end))
                 ELSE st.result
    IN  [i |-> st.i + 1, j |-> st.j, result |-> res1]

\* One iteration that advances no index when both intervals end together.
ip_body_mut_stall(la, lb, st) ==
    LET ai == la[st.i + 1]
        bj == lb[st.j + 1]
    IN  IF ai.end < bj.end
        THEN [i |-> st.i + 1, j |-> st.j, result |-> st.result]
        ELSE IF ai.end > bj.end
        THEN [i |-> st.i, j |-> st.j + 1, result |-> st.result]
        ELSE st

\* One iteration of the while loop, on the loop state [i, j, result].
ip_body(la, lb, st) ==
    LET ai    == la[st.i + 1]
        bj    == lb[st.j + 1]
        start == IF ai.start >= bj.start THEN ai.start ELSE bj.start
        end   == IF ai.end <= bj.end THEN ai.end ELSE bj.end
        res1  == IF start < end
                 THEN Append(st.result, Interval_new(start, end))
                 ELSE st.result
    IN  IF ai.end <= bj.end
        THEN [i |-> st.i + 1, j |-> st.j, result |-> res1]
        ELSE [i |-> st.i, j |-> st.j + 1, result |-> res1]

RECURSIVE ip_loop(_, _, _)
ip_loop(la, lb, st) ==
    IF ip_guard(la, lb, st) THEN ip_loop(la, lb, ip_body(la, lb, st)) ELSE st

\* A merge that advances both indices at every step.
RECURSIVE ip_loop_mut_both(_, _, _)
ip_loop_mut_both(la, lb, st) ==
    IF ip_guard(la, lb, st)
    THEN LET n == ip_body(la, lb, st)
         IN  ip_loop_mut_both(la, lb,
                 [i |-> st.i + 1, j |-> st.j + 1, result |-> n.result])
    ELSE st

intersect_periods_mut_both(la, lb) ==
    ip_loop_mut_both(la, lb, [i |-> 0, j |-> 0, result |-> <<>>]).result

intersect_periods(la, lb) ==
    ip_loop(la, lb, [i |-> 0, j |-> 0, result |-> <<>>]).result

-----------------------------------------------------------------------------
(* Inputs of the interval model. *)

Instants == 0 .. MaxT

\* Every pair of instants, ordered or not: Interval::new checks nothing.
Intervals == {Interval_new(s, e) : s, e \in Instants}

\* Intervals with start <= end.
Periods == {p \in Intervals : p.start <= p.end}

\* A sorted, non-overlapping list: every period has start <= end and ends
\* no later than the next one starts.
Sorted(ps) ==
    /\ \A k \in 1 .. Len(ps) : ps[k].start <= ps[k].end
    /\ \A k \in 1 .. Len(ps) - 1 : ps[k].end <= ps[k + 1].start

SortedLists ==
    {ps \in UNION {[1 .. n -> Periods] : n \in 0 .. MaxLen} : Sorted(ps)}

Within(o, ps) ==
    \A k \in 1 .. Len(ps) : o.start <= ps[k].start /\ ps[k].end <= o.end

\* The inputs of test_complement_intersect_roundtrip and of
\* test_complement_within_gaps / _empty / _full.
TestOuter == Interval_new(0, 10)

TestAboveMin == <<Interval_new(1, 3), Interval_new(5, 9)>>

TestAboveMax == <<Interval_new(2, 4), Interval_new(7, 8)>>

TestGaps == <<Interval_new(2, 4), Interval_new(6, 8)>>

TestBetween == <<Interval_new(1, 2), Interval_new(5, 7), Interval_new(8, 9)>>

-----------------------------------------------------------------------------
(***************************************************************************)
(* Part 2: f64.  Time<S> stores one f64 (qtty::Days); every conversion is  *)
(* IEEE-754 binary64 arithmetic, round-to-nearest-even.  TLC's integers    *)
(* are 32 bits wide, so a natural number is a little-endian sequence of    *)
(* 15-bit limbs (no leading zero limb; 0 is <<>>), and a finite f64 is     *)
(*     [s |-> sign (-1, 0, 1), e |-> exponent, m |-> mantissa]             *)
(* of value s * m * 2^e with 2^52 <= m < 2^53 (zero: s = 0, m = <<>>).     *)
(* Every operation computes the exact result and rounds it once, as the    *)
(* hardware does.  Infinities, NaN, subnormals and the sign of zero are    *)
(* not modelled: no modelled computation reaches them.                     *)
(***************************************************************************)

MaxOfSet(S) == CHOOSE i \in S : \A j \in S : j <= i

\* The function f on 1 .. n as a sequence whose elements are computed once.
Limbs(f) == f \o <<>>

\* Every operation below that uses other operations is reached through the
\* one evaluator Eval (defined after the time scales): BigAdd(x, y),
\* FAdd(x, y), ... are its calls, and BigAdd_op, FAdd_op, ... the operations
\* it dispatches to.
RECURSIVE Eval(_)
BigAdd(x, y) == Eval(<<"BigAdd", x, y>>)
BigSub(x, y) == Eval(<<"BigSub", x, y>>)
BigMulSmall(x, k) == Eval(<<"BigMulSmall", x, k>>)
BigMul(x, y) == Eval(<<"BigMul", x, y>>)
BigDivSmall(x, k) == Eval(<<"BigDivSmall", x, k>>)
BigShl(x, n) == Eval(<<"BigShl", x, n>>)
BigShr(x, n) == Eval(<<"BigShr", x, n>>)
BigDivRuns(qr, d, runs) == Eval(<<"BigDivRuns", qr, d, runs>>)
BigDivTen(x, k, sticky) == Eval(<<"BigDivTen", x, k, sticky>>)
BigModShift(x, d, j) == Eval(<<"BigModShift", x, d, j>>)
FxMul(x, y) == Eval(<<"FxMul", x, y>>)
FxSinSmall(u) == Eval(<<"FxSinSmall", u>>)
FxTriple(s) == Eval(<<"FxTriple", s>>)
FRound(s, M, e, sticky) == Eval(<<"round", s, M, e, sticky>>)
FAdd(x, y) == Eval(<<"add", x, y>>)
FMul(x, y) == Eval(<<"mul", x, y>>)
FDiv(x, y) == Eval(<<"div", x, y>>)
FSin(x) == Eval(<<"sin", x>>)

\* The functions of the time scales that several others call, evaluated on
\* computed arguments: tai_minus_utc, delta_t_seconds_from_ut, the regime
\* function named fn, and tdb_minus_tt_days.
tai_minus_utc_at(jd_utc) == Eval(<<"tai_minus_utc", jd_utc>>)
delta_t_seconds(jd_ut) == Eval(<<"delta_t", jd_ut>>)
delta_t_fn_at(fn, jd) == Eval(<<"delta_t_fn", fn, jd>>)
tdb_minus_tt_days_at(jd_tt) == Eval(<<"tdb_minus_tt_days", jd_tt>>)
FLitBig(s, n, k) == Eval(<<"lit", s, n, k>>)

\* x without its leading zero limbs.
BigNorm(x) ==
    LET nz == {i \in 1 .. Len(x) : x[i] # 0}
    IN  IF nz = {} THEN <<>> ELSE SubSeq(x, 1, MaxOfSet(nz))

RECURSIVE BigFromInt(_)
BigFromInt(n) ==
    IF n = 0 THEN <<>> ELSE <<n % 32768>> \o BigFromInt(n \div 32768)

BigLimb(x, i) == IF i <= Len(x) THEN x[i] ELSE 0

\* x + y.  Limb i carries into limb i + 1 iff some limb j <= i overflows
\* and every limb between them is 32767.
BigAdd_op(x, y) ==
    LET n == IF Len(x) >= Len(y) THEN Len(x) ELSE Len(y)
        t == Limbs([i \in 1 .. n |-> BigLimb(x, i) + BigLimb(y, i)])
        carry(i) == \E j \in 1 .. i :
                        t[j] >= 32768 /\ \A k \in j + 1 .. i : t[k] = 32767
        digits == Limbs([i \in 1 .. n |->
                      (t[i] + (IF carry(i - 1) THEN 1 ELSE 0)) % 32768])
    IN  IF carry(n) THEN digits \o <<1>> ELSE digits

\* x - y for x >= y.  Limb i borrows from limb i + 1 iff some limb j <= i
\* is negative and every limb between them is 0.
BigSub_op(x, y) ==
    LET t == Limbs([i \in 1 .. Len(x) |-> x[i] - BigLimb(y, i)])
        borrow(i) == \E j \in 1 .. i :
                         t[j] < 0 /\ \A k \in j + 1 .. i : t[k] = 0
    IN  BigNorm(Limbs([i \in 1 .. Len(x) |->
                    (t[i] - (IF borrow(i - 1) THEN 1 ELSE 0) + 32768) % 32768]))

\* -1, 0, 1 as x < y, x = y, x > y.
BigCmp(x, y) ==
    IF Len(x) < Len(y) THEN -1
    ELSE IF Len(x) > Len(y) THEN 1
    ELSE LET diff == {i \in 1 .. Len(x) : x[i] # y[i]}
         IN  IF diff = {} THEN 0
             ELSE IF x[MaxOfSet(diff)] < y[MaxOfSet(diff)] THEN -1 ELSE 1

\* x * k for 0 <= k <= 2^15: the low halves of the limb products plus
\* their high halves one limb up.
BigMulSmall_op(x, k) ==
    LET n  == Len(x)
        lo == Limbs([i \in 1 .. n |-> (x[i] * k) % 32768])
        hi == Limbs([i \in 1 .. n + 1 |->
                  IF i = 1 THEN 0 ELSE (x[i - 1] * k) \div 32768])
    IN  BigNorm(BigAdd(lo, hi))

Zeros(n) == Limbs([i \in 1 .. n |-> 0])

\* f[lo] + ... + f[hi]
RECURSIVE BigSum(_, _, _)
BigSum(f, lo, hi) ==
    IF lo > hi THEN <<>>
    ELSE IF lo = hi THEN f[lo]
    ELSE LET m == (lo + hi) \div 2
             l == BigSum(f, lo, m)
             h == BigSum(f, m + 1, hi)
         IN  BigAdd(l, h)

\* x * y: the sum of the partial products x * y[i] * 32768^(i-1).
BigMul_op(x, y) ==
    LET pp == Limbs([i \in 1 .. Len(y) |->
                  IF y[i] = 0 \/ x = <<>> THEN <<>>
                  ELSE Zeros(i - 1) \o BigMulSmall(x, y[i])])
    IN  BigSum(pp, 1, Len(y))

\* [q |-> x \div k, r |-> x % k] for 0 < k < 2^16.
RECURSIVE BigDivSmallR(_, _, _, _, _)
BigDivSmallR(x, k, i, r, q) ==
    IF i = 0 \/ Len(q) < 0 THEN [q |-> BigNorm(q), r |-> r]
    ELSE LET cur == r * 32768 + x[i]
         IN  BigDivSmallR(x, k, i - 1, cur % k, <<cur \div k>> \o q)

BigDivSmall_op(x, k) == BigDivSmallR(x, k, Len(x), 0, <<>>)

\* x * 2^n.
BigShl_op(x, n) ==
    IF x = <<>> THEN <<>>
    ELSE Zeros(n \div 15) \o BigMulSmall(x, 2 ^ (n % 15))

\* [q |-> x \div 2^n, sticky |-> x % 2^n # 0].
BigShr_op(x, n) ==
    LET w    == IF n \div 15 < Len(x) THEN n \div 15 ELSE Len(x)
        p    == 2 ^ (n % 15)
        high == SubSeq(x, w + 1, Len(x))
    IN  [q |-> BigNorm(Limbs([i \in 1 .. Len(high) |->
                   high[i] \div p + (BigLimb(high, i + 1) % p) * (32768 \div p)])),
         sticky |-> \/ high # <<>> /\ high[1] % p # 0
                    \/ \E i \in 1 .. w : x[i] # 0]

\* The number of bits of 0 < n < 2^15.
BitLen15(n) == CHOOSE k \in 1 .. 15 : 2 ^ (k - 1) <= n /\ n < 2 ^ k

BigBitLen(x) ==
    IF x = <<>> THEN 0 ELSE 15 * (Len(x) - 1) + BitLen15(x[Len(x)])

BigOdd(x) == x # <<>> /\ x[1] % 2 = 1

\* The value of x < 2^30 as an integer.
BigToInt(x) == BigLimb(x, 1) + 32768 * BigLimb(x, 2)

-----------------------------------------------------------------------------
(* f64: rounding, arithmetic, comparison, casts, literals. *)

FZero == [s |-> 0, e |-> 0, m |-> <<>>]

\* The f64 nearest to s * (M + d) * 2^e, where 0 <= d < 1 and sticky says
\* d > 0; ties go to the even mantissa.  M is first brought to 55 bits: the
\* mantissa and two more bits that, with sticky, decide the rounding.
FRound_op(s, M, e, sticky) ==
    IF M = <<>> THEN FZero
    ELSE LET d    == BigBitLen(M) - 55
             sh   == IF d >= 0 THEN BigShr(M, d)
                     ELSE [q |-> BigShl(M, 0 - d), sticky |-> FALSE]
             st   == sticky \/ sh.sticky
             low2 == sh.q[1] % 4
             q    == BigShr(sh.q, 2).q
             up   == low2 = 3 \/ (low2 = 2 /\ (st \/ BigOdd(q)))
             r    == IF up THEN BigAdd(q, <<1>>) ELSE q
         IN  IF BigBitLen(r) = 54
             THEN [s |-> s, e |-> e + d + 3, m |-> BigShr(r, 1).q]
             ELSE [s |-> s, e |-> e + d + 2, m |-> r]

FNeg(x) == [s |-> 0 - x.s, e |-> x.e, m |-> x.m]

FAbs(x) == [s |-> IF x.s = 0 THEN 0 ELSE 1, e |-> x.e, m |-> x.m]

\* x + y
FAdd_op(x, y) ==
    IF x.s = 0 THEN y
    ELSE IF y.s = 0 THEN x
    ELSE LET e  == IF x.e < y.e THEN x.e ELSE y.e
             mx == BigShl(x.m, x.e - e)
             my == BigShl(y.m, y.e - e)
             c  == BigCmp(mx, my)
         IN  IF x.s = y.s THEN FRound(x.s, BigAdd(mx, my), e, FALSE)
             ELSE IF c = 0 THEN FZero
             ELSE IF c > 0 THEN FRound(x.s, BigSub(mx, my), e, FALSE)
             ELSE FRound(y.s, BigSub(my, mx), e, FALSE)

\* x - y
FSub(x, y) == FAdd(x, FNeg(y))

\* x * y
FMul_op(x, y) ==
    IF x.s = 0 \/ y.s = 0 THEN FZero
    ELSE FRound(x.s * y.s, BigMul(x.m, y.m), x.e + y.e, FALSE)

\* The quotient bits of n / d, most significant first: k more bits after q,
\* with remainder r < d.  (Len(q) < 0 never holds; it makes the evaluator
\* compute q at every step instead of building a deferred chain.)
RECURSIVE BigDivBits(_, _, _, _)
BigDivBits(r, d, q, k) ==
    IF k = 0 \/ Len(q) < 0 THEN [q |-> q, r |-> r]
    ELSE LET r2 == BigMulSmall(r, 2)
             q2 == BigMulSmall(q, 2)
         IN  IF BigCmp(r2, d) >= 0
             THEN BigDivBits(BigSub(r2, d), d, BigAdd(q2, <<1>>), k - 1)
             ELSE BigDivBits(r2, d, q2, k - 1)

\* x / y (y # 0): 57 quotient bits by long division (in eight runs of 7, to
\* keep the evaluation shallow), the remainder sticky.
RECURSIVE BigDivRuns_op(_, _, _)
BigDivRuns_op(qr, d, runs) ==
    IF runs = 0 \/ Len(qr.q) < 0 THEN qr
    ELSE BigDivRuns_op(BigDivBits(qr.r, d, qr.q, 7), d, runs - 1)

FDiv_op(x, y) ==
    IF x.s = 0 THEN FZero
    ELSE LET first == BigCmp(x.m, y.m) >= 0
             d0 == [q |-> IF first THEN <<1>> ELSE <<>>,
                    r |-> IF first THEN BigSub(x.m, y.m) ELSE x.m]
             d8 == BigDivRuns(d0, y.m, 8)
         IN  FRound(x.s * y.s, d8.q, x.e - y.e - 56, d8.r # <<>>)

\* -1, 0, 1 as x < y, x = y, x > y.
FCmpMag(x, y) ==
    IF x.e < y.e THEN -1 ELSE IF x.e > y.e THEN 1 ELSE BigCmp(x.m, y.m)

FCmp(x, y) ==
    IF x.s # y.s THEN (IF x.s < y.s THEN -1 ELSE 1)
    ELSE IF x.s = 0 THEN 0
    ELSE x.s * FCmpMag(x, y)

FLt(x, y) == FCmp(x, y) < 0

FLe(x, y) == FCmp(x, y) <= 0

\* n as f64, for an integer |n| < 2^31.
FromInt(n) ==
    IF n = 0 THEN FZero
    ELSE FRound(IF n < 0 THEN -1 ELSE 1,
                BigFromInt(IF n < 0 THEN 0 - n ELSE n), 0, FALSE)

\* x as usize: truncation toward zero, negative values give 0.  Values of
\* 2^30 and more give 2^30 (the cast saturates at usize::MAX; every use
\* compares the result with a small table length).
AsUsize(x) ==
    IF x.s <= 0 \/ x.e <= -53 THEN 0
    ELSE IF x.e > -23 THEN 2 ^ 30
    ELSE BigToInt(BigShr(x.m, 0 - x.e).q)

\* The decimal literal n / 10^k: n is divided by ten k times, exactly (as
\* floor(floor(v / 10) / 10) = floor(v / 100)), on 120 more bits than it has,
\* and rounded once; sticky collects the remainders.
RECURSIVE BigDivTen_op(_, _, _)
BigDivTen_op(x, k, sticky) ==
    IF k = 0 \/ Len(x) < 0 \/ sticky \notin BOOLEAN
    THEN [q |-> x, sticky |-> sticky]
    ELSE LET d == BigDivSmall(x, 10)
         IN  BigDivTen_op(d.q, k - 1, sticky \/ d.r # 0)

FLitBig_op(s, n, k) ==
    LET d == BigDivTen(BigShl(n, 120), k, FALSE)
    IN  FRound(s, d.q, -120, d.sticky)

\* The digits d1 d2 ... dn as a natural number.
RECURSIVE BigFromDigits(_, _, _)
BigFromDigits(ds, i, acc) ==
    IF i > Len(ds) \/ Len(acc) < 0 THEN acc
    ELSE LET next_acc == BigAdd(BigMulSmall(acc, 10), BigFromInt(ds[i]))
         IN  BigFromDigits(ds, i + 1, next_acc)

\* The literal with decimal digits ds, the last k of them after the point.
Lit(ds, k) == FLitBig(1, BigFromDigits(ds, 1, <<>>), k)

\* The literal n / 10^k for an integer |n| < 2^31.
Dec(n, k) ==
    IF n < 0 THEN FLitBig(-1, BigFromInt(0 - n), k)
    ELSE FLitBig(1, BigFromInt(n), k)

-----------------------------------------------------------------------------
(***************************************************************************)
(* f64::sin and f64::to_radians.  The sine is computed in fixed point, in  *)
(* units of 2^-105: the argument is reduced exactly modulo 2 pi (2 pi      *)
(* truncated to 105 fractional bits) and folded into [0, pi/2]; the sine   *)
(* of a ninth of it is summed as a Taylor series and taken back by         *)
(* sin 3u = 3 sin u - 4 sin^3 u, twice; the result is rounded to f64 once. *)
(* This is the correctly rounded sine up to 2^-95 absolute; a platform     *)
(* libm may differ from it in the last bit.                                *)
(***************************************************************************)

\* Rust evaluates a let binding where it stands: Computed(v) holds once v has
\* been computed, and is asked of each binding in the order of the source.
Computed(v) == v = v

\* floor(2 pi * 2^105)
TWO_PI_FX == <<14349, 19537, 12593, 24858, 8552, 13636, 9279, 6>>

PI_FX == BigShr(TWO_PI_FX, 1).q

HALF_PI_FX == BigShr(TWO_PI_FX, 2).q

\* x mod d, for x < d * 2^(j+1): the multiples d * 2^j, ..., d are removed.
RECURSIVE BigModShift_op(_, _, _)
BigModShift_op(x, d, j) ==
    IF j < 0 \/ Len(x) < 0 THEN x
    ELSE LET dj == BigShl(d, j)
         IN  BigModShift_op(IF BigCmp(x, dj) >= 0 THEN BigSub(x, dj) ELSE x,
                         d, j - 1)

\* x * y in fixed point.
FxMul_op(x, y) == BigShr(BigMul(x, y), 105).q

\* The Taylor series u - u^3/3! + u^5/5! - ... from the term t of odd index
\* n on: pos and neg collect the terms of either sign.
RECURSIVE SinSeries(_, _, _, _, _)
SinSeries(u2, t, n, pos, neg) ==
    IF t = <<>> \/ n > 21 \/ Len(pos) < 0 \/ Len(neg) < 0
    THEN [pos |-> pos, neg |-> neg]
    ELSE LET nt == BigDivSmall(FxMul(t, u2), (n + 1) * (n + 2)).q
         IN  IF n % 4 = 1
             THEN SinSeries(u2, nt, n + 2, BigAdd(pos, t), neg)
             ELSE SinSeries(u2, nt, n + 2, pos, BigAdd(neg, t))

\* sin u for 0 <= u <= pi/18, in fixed point.
FxSinSmall_op(u) ==
    LET u2  == FxMul(u, u)
        sum == SinSeries(u2, u, 1, <<>>, <<>>)
    IN  IF BigCmp(sum.pos, sum.neg) <= 0 THEN <<>>
              ELSE BigSub(sum.pos, sum.neg)

\* sin 3u from s = sin u, for 0 <= 3u <= pi/2: 3 s - 4 s^3.
FxTriple_op(s) ==
    LET s3 == BigMulSmall(s, 3)
        s2 == FxMul(s, s)
        c4 == BigMulSmall(FxMul(s2, s), 4)
    IN  IF BigCmp(s3, c4) <= 0 THEN <<>> ELSE BigSub(s3, c4)

\* x.sin(), for |x| < 2^17.
FSin_op(x) ==
    IF x.s = 0 THEN FZero
    ELSE LET X     == IF x.e + 105 >= 0 THEN BigShl(x.m, x.e + 105)
                      ELSE BigShr(x.m, 0 - (x.e + 105)).q
             r0    == BigModShift(X, TWO_PI_FX, 15)
             upper == BigCmp(r0, PI_FX) > 0
             r1    == IF upper THEN BigSub(TWO_PI_FX, r0) ELSE r0
             r     == IF BigCmp(r1, HALF_PI_FX) > 0 THEN BigSub(PI_FX, r1)
                      ELSE r1
             s9    == FxSinSmall(BigDivSmall(r, 9).q)
             s3    == FxTriple(s9)
             s1    == FxTriple(s3)
         IN  IF ~(/\ Computed(X) /\ Computed(r0) /\ Computed(r)
                   /\ Computed(s9) /\ Computed(s3))
                \/ s1 = <<>>
             THEN FZero
             ELSE FRound(IF upper THEN 0 - x.s ELSE x.s, s1, -105, FALSE)

\* core::f64::consts::PI
F64_PI == Lit(<<3, 1, 4, 1, 5, 9, 2, 6, 5, 3, 5, 8, 9, 7, 9, 3, 2, 3, 8, 4, 6>>, 20)

\* x.to_radians() is x * (PI / 180.0).
RADS_PER_DEG == FDiv(F64_PI, FromInt(180))

to_radians(x) == FMul(x, RADS_PER_DEG)

-----------------------------------------------------------------------------
(* The time scales (tempoch-core/src/scales.rs). *)

Scales == {"JD", "JDE", "MJD", "TDB", "TT", "TAI", "TCG", "TCB", "GPS",
           "UnixTime", "UT"}

SECONDS_PER_DAY == FromInt(86400)

F64_ONE == FromInt(1)

F64_TWO == FromInt(2)

\* Time::<JD>::J2000 and JULIAN_CENTURY (julian_date_ext.rs)
J2000 == FromInt(2451545)

JULIAN_CENTURY == FromInt(36525)

JULIAN_YEAR == Dec(36525, 2)

JD_to_jd_tt(value) == value
JD_from_jd_tt(jd_tt) == jd_tt

JDE_to_jd_tt(value) == value
JDE_from_jd_tt(jd_tt) == jd_tt

MJD_EPOCH == Dec(24000005, 1)
MJD_to_jd_tt(value) == FAdd(value, MJD_EPOCH)
MJD_from_jd_tt_mut_noop(jd_tt) == jd_tt
MJD_from_jd_tt(jd_tt) == FSub(jd_tt, MJD_EPOCH)

\* The coefficients of the four mean arguments, in degrees and degrees per
\* Julian century.
TDB_M_E_0 == Lit(<<3, 5, 7, 5, 2, 9, 1, 0, 9, 2>>, 7)
TDB_M_E_1 == Lit(<<3, 5, 9, 9, 9, 0, 5, 0, 2, 9, 0, 9>>, 7)
TDB_M_J_0 == Dec(2464512, 4)
TDB_M_J_1 == Dec(30352335, 4)
TDB_D_0 == Lit(<<2, 9, 7, 8, 5, 0, 2, 0, 4, 2>>, 7)
TDB_D_1 == Lit(<<4, 4, 5, 2, 6, 7, 1, 1, 1, 5, 1, 6, 8>>, 7)
TDB_OM_0 == Lit(<<1, 2, 5, 0, 4, 4, 5, 5, 5, 0>>, 7)
TDB_OM_1 == Lit(<<1, 9, 3, 4, 1, 3, 6, 2, 0, 9, 1>>, 7)

\* The amplitudes of the periodic terms, in seconds, and the eccentricity
\* factor 0.01671.
TDB_AMPLITUDES == <<Dec(1657, 6), Dec(22, 6), Dec(14, 6), Dec(5, 6), Dec(5, 6)>>
TDB_ECC == Dec(1671, 5)

tdb_minus_tt_days(jd_tt) ==
    LET t   == FDiv(FSub(jd_tt, J2000), JULIAN_CENTURY)
        m_e == to_radians(FAdd(TDB_M_E_0, FMul(TDB_M_E_1, t)))
        m_j == to_radians(FAdd(TDB_M_J_0, FMul(TDB_M_J_1, t)))
        d   == to_radians(FAdd(TDB_D_0, FMul(TDB_D_1, t)))
        om  == to_radians(FSub(TDB_OM_0, FMul(TDB_OM_1, t)))
        sin_m_e == FSin(m_e)
        term1   == FMul(TDB_AMPLITUDES[1],
                        FSin(FAdd(m_e, FMul(TDB_ECC, sin_m_e))))
        term2   == FMul(TDB_AMPLITUDES[2], FSin(FSub(d, m_e)))
        term3   == FMul(TDB_AMPLITUDES[3], FSin(FMul(F64_TWO, d)))
        term4   == FMul(TDB_AMPLITUDES[4], FSin(m_j))
        term5   == FMul(TDB_AMPLITUDES[5], FSin(om))
        dt_sec  == FAdd(FAdd(FAdd(FAdd(term1, term2), term3), term4), term5)
    IN  IF /\ Computed(t)
           /\ Computed(m_e) /\ Computed(m_j) /\ Computed(d) /\ Computed(om)
           /\ Computed(sin_m_e)
           /\ Computed(term1) /\ Computed(term2) /\ Computed(term3)
           /\ Computed(term4) /\ Computed(term5)
        THEN FDiv(dt_sec, SECONDS_PER_DAY)
        ELSE FZero

TDB_to_jd_tt(tdb_value) ==
    FSub(tdb_value, tdb_minus_tt_days_at(tdb_value))
TDB_from_jd_tt(jd_tt) == FAdd(jd_tt, tdb_minus_tt_days_at(jd_tt))

TT_to_jd_tt(value) == value
TT_from_jd_tt(jd_tt) == jd_tt

TT_MINUS_TAI == FDiv(Dec(32184, 3), SECONDS_PER_DAY)
TAI_to_jd_tt(tai_value) == FAdd(tai_value, TT_MINUS_TAI)
TAI_from_jd_tt(jd_tt) == FSub(jd_tt, TT_MINUS_TAI)

L_G == Lit(<<6, 9, 6, 9, 2, 9, 0, 1, 3, 4>>, 19)
TCG_EPOCH_T0 == Lit(<<2, 4, 4, 3, 1, 4, 4, 5, 0, 0, 3, 7, 2, 5>>, 7)
TCG_to_jd_tt(tcg_value) ==
    FSub(tcg_value, FMul(L_G, FSub(tcg_value, TCG_EPOCH_T0)))
TCG_from_jd_tt(jd_tt) ==
    FAdd(jd_tt, FDiv(FMul(L_G, FSub(jd_tt, TCG_EPOCH_T0)),
                     FSub(F64_ONE, L_G)))

L_B == Lit(<<1, 5, 5, 0, 5, 1, 9, 7, 6, 8>>, 17)
TCB_to_jd_tt(tcb_value) ==
    FSub(tcb_value, FMul(L_B, FSub(tcb_value, TCG_EPOCH_T0)))
TCB_from_jd_tt(jd_tt) ==
    FAdd(jd_tt, FMul(L_B, FSub(jd_tt, TCG_EPOCH_T0)))

GPS_EPOCH_JD_TT == FAdd(Dec(24442445, 1), FDiv(Dec(51184, 3), SECONDS_PER_DAY))
GPS_to_jd_tt(value) == FAdd(value, GPS_EPOCH_JD_TT)
GPS_from_jd_tt(jd_tt) == FSub(jd_tt, GPS_EPOCH_JD_TT)

UNIX_EPOCH_JD == Dec(24405875, 1)

\* (JD on the UTC axis, in tenths of a day; TAI - UTC in seconds)
LEAP_SECONDS_X10 == <<
    <<24413175, 10>>, <<24414995, 11>>, <<24416835, 12>>, <<24420485, 13>>,
    <<24424135, 14>>, <<24427785, 15>>, <<24431445, 16>>, <<24435095, 17>>,
    <<24438745, 18>>, <<24442395, 19>>, <<24447865, 20>>, <<24451515, 21>>,
    <<24455165, 22>>, <<24462475, 23>>, <<24471615, 24>>, <<24478925, 25>>,
    <<24482575, 26>>, <<24488045, 27>>, <<24491695, 28>>, <<24495345, 29>>,
    <<24500835, 30>>, <<24506305, 31>>, <<24511795, 32>>, <<24537365, 33>>,
    <<24548325, 34>>, <<24561095, 35>>, <<24572045, 36>>, <<24577545, 37>> >>

\* LEAP_SECONDS[k] is entry k - 1 of the source's array.
LEAP_SECONDS ==
    [k \in 1 .. Len(LEAP_SECONDS_X10) |->
        <<Dec(LEAP_SECONDS_X10[k][1], 1), FromInt(LEAP_SECONDS_X10[k][2])>>]

RECURSIVE tai_minus_utc_search(_, _, _)
tai_minus_utc_search(jd_utc, lo, hi) ==
    IF lo < hi
    THEN LET mid == lo + (hi - lo) \div 2
         IN  IF FLe(LEAP_SECONDS[mid + 1][1], jd_utc)
             THEN tai_minus_utc_search(jd_utc, mid + 1, hi)
             ELSE tai_minus_utc_search(jd_utc, lo, mid)
    ELSE lo

\* An initial offset that is not the first entry's.
INITIAL_TAI_MINUS_UTC_mut_11 == FromInt(11)

\* The constant returned when lo == 0.
INITIAL_TAI_MINUS_UTC == FromInt(10)

\* A lookup that takes the entry below the one it found.
tai_minus_utc_mut_below(jd_utc) ==
    LET lo == tai_minus_utc_search(jd_utc, 0, Len(LEAP_SECONDS))
    IN  IF lo <= 1 THEN INITIAL_TAI_MINUS_UTC ELSE LEAP_SECONDS[lo - 1][2]

tai_minus_utc(jd_utc) ==
    LET lo == tai_minus_utc_search(jd_utc, 0, Len(LEAP_SECONDS))
    IN  IF lo = 0 THEN INITIAL_TAI_MINUS_UTC ELSE LEAP_SECONDS[lo][2]

TT_MINUS_TAI_SECS == Dec(32184, 3)

\* (37.0 + TT_MINUS_TAI_SECS) / 86_400.0
UNIX_LARGEST_OFFSET ==
    FDiv(FAdd(FromInt(37), TT_MINUS_TAI_SECS), SECONDS_PER_DAY)

UnixTime_to_jd_tt(value) ==
    LET jd_utc == FAdd(value, UNIX_EPOCH_JD)
        ls     == tai_minus_utc_at(jd_utc)
    IN  IF Computed(jd_utc) /\ Computed(ls)
        THEN FAdd(jd_utc, FDiv(FAdd(ls, TT_MINUS_TAI_SECS), SECONDS_PER_DAY))
        ELSE value

\* UnixTime::from_jd_tt with the offset looked up at jd_tt itself.
UnixTime_from_jd_tt_mut_noguess(jd_tt) ==
    LET ls     == tai_minus_utc_at(jd_tt)
        jd_utc == FSub(jd_tt, FDiv(FAdd(ls, TT_MINUS_TAI_SECS),
                                   SECONDS_PER_DAY))
    IN  FSub(jd_utc, UNIX_EPOCH_JD)

UnixTime_from_jd_tt(jd_tt) ==
    LET approx_utc == FSub(jd_tt, UNIX_LARGEST_OFFSET)
        ls         == tai_minus_utc_at(approx_utc)
        jd_utc     == FSub(jd_tt, FDiv(FAdd(ls, TT_MINUS_TAI_SECS),
                                       SECONDS_PER_DAY))
    IN  IF Computed(approx_utc) /\ Computed(ls) /\ Computed(jd_utc)
        THEN FSub(jd_utc, UNIX_EPOCH_JD)
        ELSE jd_tt

-----------------------------------------------------------------------------
(* Delta T = TT - UT (tempoch-core/src/delta_t.rs). *)

TERMS == 187

\* The biennial table 1620-1992, in tenths of a second.
DELTA_T_X10 == <<
    1240, 1150, 1060, 980, 910, 850, 790, 740, 700, 650, 620, 580,
    550, 530, 500, 480, 460, 440, 420, 400, 370, 350, 330, 310,
    280, 260, 240, 220, 200, 180, 160, 140, 130, 120, 110, 100,
    90, 90, 90, 90, 90, 90, 90, 90, 100, 100, 100, 100,
    100, 110, 110, 110, 110, 110, 110, 110, 120, 120, 120, 120,
    120, 120, 130, 130, 130, 130, 140, 140, 140, 150, 150, 150,
    150, 160, 160, 160, 160, 160, 170, 170, 170, 170, 170, 170,
    170, 170, 160, 160, 150, 140, 137, 131, 127, 125, 125, 125,
    125, 125, 125, 123, 120, 114, 106, 96, 86, 75, 66, 60,
    57, 56, 57, 59, 62, 65, 68, 71, 73, 75, 77, 78,
    79, 75, 64, 54, 29, 16, -10, -27, -36, -47, -54, -52,
    -55, -56, -58, -59, -62, -64, -61, -47, -27, 0, 26, 54,
    77, 105, 134, 160, 182, 202, 212, 224, 235, 239, 243, 240,
    239, 239, 237, 240, 243, 253, 262, 273, 282, 291, 300, 307,
    314, 322, 331, 340, 350, 365, 383, 402, 422, 445, 465, 485,
    505, 522, 538, 549, 558, 569, 583
    >>

\* DELTA_T(i) is element i (from 0) of the source's array.
DELTA_T_F64 == [k \in 1 .. TERMS |-> Dec(DELTA_T_X10[k], 1)]

DELTA_T(i) == DELTA_T_F64[i + 1]

OBSERVED_TERMS == 34

OBSERVED_START_YEAR == FromInt(1992)

\* The annual table 1992-2025, in hundredths of a second.
OBSERVED_DT_X100 == <<
    5831, 5912, 5998, 6078, 6163, 6230, 6297, 6347,
    6383, 6409, 6430, 6447, 6457, 6469, 6485, 6515,
    6546, 6578, 6607, 6632, 6660, 6691, 6728, 6764,
    6810, 6859, 6897, 6922, 6936, 6936, 6929, 6918,
    6909, 6936 >>

OBSERVED_DT_F64 == [k \in 1 .. OBSERVED_TERMS |-> Dec(OBSERVED_DT_X100[k], 2)]

OBSERVED_DT(i) == OBSERVED_DT_F64[i + 1]

OBSERVED_END_YEAR == FAdd(OBSERVED_START_YEAR, FromInt(OBSERVED_TERMS))

\* A rate a hundred times the source's.
EXTRAPOLATION_RATE_mut_fast == FromInt(2)

EXTRAPOLATION_RATE == Dec(2, 2)

days_ratio(num, den) == FDiv(num, den)

DT_A0_S == FromInt(1830)

DT_A1_S == FromInt(-405)

DT_A2_S == Dec(465, 1)

JD_EPOCH_948_UT == Dec(20673145, 1)

delta_t_ancient(jd) ==
    LET c == days_ratio(FSub(jd, JD_EPOCH_948_UT), JULIAN_CENTURY)
    IN  IF Computed(c)
        THEN FAdd(FAdd(DT_A0_S, FMul(DT_A1_S, c)), FMul(FMul(DT_A2_S, c), c))
        ELSE FZero

JD_EPOCH_1850_UT == Dec(23967585, 1)

DT_MEDIEVAL_A2_S == Dec(225, 1)

delta_t_medieval(jd) ==
    LET c == days_ratio(FSub(jd, JD_EPOCH_1850_UT), JULIAN_CENTURY)
    IN  IF Computed(c) THEN FMul(FMul(DT_MEDIEVAL_A2_S, c), c) ELSE FZero

JD_TABLE_START_1620 == Dec(23127525, 1)

BIENNIAL_STEP_D == Dec(7305, 1)

\* An index clipped one entry too early.
delta_t_table_index_mut_early(jd) ==
    LET i0 == AsUsize(days_ratio(FSub(jd, JD_TABLE_START_1620), BIENNIAL_STEP_D))
    IN  IF i0 > TERMS - 4 THEN TERMS - 4 ELSE i0

\* The index i of delta_t_table: let mut i = ... as usize;
\* if i > TERMS - 3 { i = TERMS - 3; }
delta_t_table_index(jd) ==
    LET i0 == AsUsize(days_ratio(FSub(jd, JD_TABLE_START_1620), BIENNIAL_STEP_D))
    IN  IF i0 > TERMS - 3 THEN TERMS - 3 ELSE i0

\* (a and b of the source are d_a and d_b here.)
delta_t_table(jd) ==
    LET i  == delta_t_table_index(jd)
        d_a == FSub(DELTA_T(i + 1), DELTA_T(i))
        d_b == FSub(DELTA_T(i + 2), DELTA_T(i + 1))
        c  == FSub(d_a, d_b)
        n  == days_ratio(
                  FSub(jd, FAdd(JD_TABLE_START_1620,
                                FMul(BIENNIAL_STEP_D, FromInt(i)))),
                  BIENNIAL_STEP_D)
    IN  IF Computed(d_a) /\ Computed(d_b) /\ Computed(c) /\ Computed(n)
        THEN FAdd(DELTA_T(i + 1),
                  FMul(FDiv(n, F64_TWO), FAdd(FAdd(d_a, d_b), FMul(n, c))))
        ELSE FZero

\* The fractional year of jd.
F64_2000 == FromInt(2000)

delta_t_year(jd) == FAdd(F64_2000, FDiv(FSub(jd, J2000), JULIAN_YEAR))

\* delta_t_observed interpolating from the entry after idx.
delta_t_observed_mut_next(jd) ==
    LET idx_f == FSub(delta_t_year(jd), OBSERVED_START_YEAR)
        idx   == AsUsize(idx_f)
    IN  IF idx + 1 >= OBSERVED_TERMS THEN OBSERVED_DT(OBSERVED_TERMS - 1)
              ELSE LET frac == FSub(idx_f, FromInt(idx))
                   IN  FAdd(OBSERVED_DT(idx + 1),
                            FMul(frac, FSub(OBSERVED_DT(idx + 1),
                                            OBSERVED_DT(idx))))

delta_t_observed(jd) ==
    LET idx_f == FSub(delta_t_year(jd), OBSERVED_START_YEAR)
        idx   == AsUsize(idx_f)
    IN  IF idx + 1 >= OBSERVED_TERMS THEN OBSERVED_DT(OBSERVED_TERMS - 1)
              ELSE LET frac == FSub(idx_f, FromInt(idx))
                   IN  FAdd(OBSERVED_DT(idx),
                            FMul(frac, FSub(OBSERVED_DT(idx + 1),
                                            OBSERVED_DT(idx))))

delta_t_extrapolated(jd) ==
    LET dt_last    == OBSERVED_DT(OBSERVED_TERMS - 1)
        years_past == FSub(delta_t_year(jd), OBSERVED_END_YEAR)
    IN  IF Computed(years_past)
        THEN FAdd(dt_last, FMul(EXTRAPOLATION_RATE, years_past))
        ELSE FZero

JD_1992 == Dec(24486225, 1)

JD_2026 == Dec(24610415, 1)

JD_1600 == Dec(23054475, 1)

\* The dispatch with the 1992 boundary given to the table.
delta_t_seconds_from_ut_mut_le(jd_ut) ==
    IF FLt(jd_ut, JD_EPOCH_948_UT) THEN delta_t_ancient(jd_ut)
    ELSE IF FLt(jd_ut, JD_1600) THEN delta_t_medieval(jd_ut)
    ELSE IF FLe(jd_ut, JD_1992) THEN delta_t_table(jd_ut)
    ELSE IF FLt(jd_ut, JD_2026) THEN delta_t_observed(jd_ut)
    ELSE delta_t_extrapolated(jd_ut)

delta_t_seconds_from_ut(jd_ut) ==
    IF FLt(jd_ut, JD_EPOCH_948_UT) THEN delta_t_ancient(jd_ut)
    ELSE IF FLt(jd_ut, JD_1600) THEN delta_t_medieval(jd_ut)
    ELSE IF FLt(jd_ut, JD_1992) THEN delta_t_table(jd_ut)
    ELSE IF FLt(jd_ut, JD_2026) THEN delta_t_observed(jd_ut)
    ELSE delta_t_extrapolated(jd_ut)

\* delta_t_recent of src/delta_t.rs, the three-point interpolation over
\* 1990, 2000 and 2010 (a and b of the source are d_a and d_b here).
DT_RECENT == <<Dec(5686, 2), Dec(6383, 2), FromInt(70)>>

JD_YEAR_2000_UT == Dec(24515445, 1)

DECADE_D == Dec(36525, 1)

delta_t_recent(jd) ==
    LET d_a == FSub(DT_RECENT[2], DT_RECENT[1])
        d_b == FSub(DT_RECENT[3], DT_RECENT[2])
        c   == FSub(d_b, d_a)
        n   == days_ratio(FSub(jd, JD_YEAR_2000_UT), DECADE_D)
    IN  IF Computed(d_a) /\ Computed(d_b) /\ Computed(c) /\ Computed(n)
        THEN FAdd(DT_RECENT[2],
                  FMul(FDiv(n, F64_TWO), FAdd(FAdd(d_a, d_b), FMul(n, c))))
        ELSE FZero

\* The regime functions, by name.
delta_t_fn(fn, jd) ==
    CASE fn = "delta_t_ancient"      -> delta_t_ancient(jd)
      [] fn = "delta_t_medieval"     -> delta_t_medieval(jd)
      [] fn = "delta_t_table"        -> delta_t_table(jd)
      [] fn = "delta_t_observed"     -> delta_t_observed(jd)
      [] fn = "delta_t_extrapolated" -> delta_t_extrapolated(jd)
      [] fn = "delta_t_recent"       -> delta_t_recent(jd)

\* The arms of the match of delta_t_seconds_from_ut on the two sides of
\* the boundary bd.
RegimeBelow(bd) ==
    CASE bd = JD_EPOCH_948_UT -> "delta_t_ancient"
      [] bd = JD_1600         -> "delta_t_medieval"
      [] bd = JD_1992         -> "delta_t_table"
      [] bd = JD_2026         -> "delta_t_observed"

RegimeAbove(bd) ==
    CASE bd = JD_EPOCH_948_UT -> "delta_t_medieval"
      [] bd = JD_1600         -> "delta_t_table"
      [] bd = JD_1992         -> "delta_t_observed"
      [] bd = JD_2026         -> "delta_t_extrapolated"

\* Seconds to days (qtty's .to::<Day>()): the value divided by 86 400.
seconds_to_days(s) == FDiv(s, SECONDS_PER_DAY)

UT_to_jd_tt(ut_value) ==
    LET dt_secs == delta_t_seconds(ut_value)
        dt_days == seconds_to_days(dt_secs)
    IN  IF Computed(dt_secs) /\ Computed(dt_days)
        THEN FAdd(ut_value, dt_days)
        ELSE ut_value

\* One pass of the fixed-point loop of UT::from_jd_tt.
UT_from_jd_tt_step(jd_tt, ut) ==
    LET dt_secs == delta_t_seconds(ut)
        dt_days == seconds_to_days(dt_secs)
    IN  IF Computed(dt_secs) /\ Computed(dt_days) THEN FSub(jd_tt, dt_days)
        ELSE ut

\* for _ in 0..3: whether a pass follows the k passes already made.
UT_from_jd_tt_more_mut_two(k) == k \in 0 .. 1

UT_from_jd_tt_more(k) == k \in 0 .. 2

RECURSIVE UT_from_jd_tt_loop(_, _, _)
UT_from_jd_tt_loop(jd_tt, ut, k) ==
    IF k = 0 \/ ~Computed(ut) THEN ut
    ELSE LET next_ut == UT_from_jd_tt_step(jd_tt, ut)
         IN  UT_from_jd_tt_loop(jd_tt, next_ut, k - 1)

UT_from_jd_tt(jd_tt) == UT_from_jd_tt_loop(jd_tt, jd_tt, 3)

-----------------------------------------------------------------------------
(* TimeScale dispatch and Time<S>::to (src/instant.rs). *)

\* S::to_jd_tt(value), by the scale S.
TimeScale_to_jd_tt(S, value) ==
    CASE S = "JD"       -> JD_to_jd_tt(value)
      [] S = "JDE"      -> JDE_to_jd_tt(value)
      [] S = "MJD"      -> MJD_to_jd_tt(value)
      [] S = "TDB"      -> TDB_to_jd_tt(value)
      [] S = "TT"       -> TT_to_jd_tt(value)
      [] S = "TAI"      -> TAI_to_jd_tt(value)
      [] S = "TCG"      -> TCG_to_jd_tt(value)
      [] S = "TCB"      -> TCB_to_jd_tt(value)
      [] S = "GPS"      -> GPS_to_jd_tt(value)
      [] S = "UnixTime" -> UnixTime_to_jd_tt(value)
      [] S = "UT"       -> UT_to_jd_tt(value)

\* S::from_jd_tt(jd_tt), by the scale S.
TimeScale_from_jd_tt(S, jd_tt) ==
    CASE S = "JD"       -> JD_from_jd_tt(jd_tt)
      [] S = "JDE"      -> JDE_from_jd_tt(jd_tt)
      [] S = "MJD"      -> MJD_from_jd_tt(jd_tt)
      [] S = "TDB"      -> TDB_from_jd_tt(jd_tt)
      [] S = "TT"       -> TT_from_jd_tt(jd_tt)
      [] S = "TAI"      -> TAI_from_jd_tt(jd_tt)
      [] S = "TCG"      -> TCG_from_jd_tt(jd_tt)
      [] S = "TCB"      -> TCB_from_jd_tt(jd_tt)
      [] S = "GPS"      -> GPS_from_jd_tt(jd_tt)
      [] S = "UnixTime" -> UnixTime_from_jd_tt(jd_tt)
      [] S = "UT"       -> UT_from_jd_tt(jd_tt)

\* The two functions of a scale, applied to computed values.
to_jd_tt(S, value) == Eval(<<"to_jd_tt", S, value>>)

from_jd_tt(S, jd_tt) == Eval(<<"from_jd_tt", S, jd_tt>>)

\* Time::<T>::from_julian_day(jd) is Self::from_days(T::from_jd_tt(jd)).
from_julian_day_mut_days(T, jd) == jd

from_julian_day(T, jd) == from_jd_tt(T, jd)

\* self.to::<T>() for self: Time<S>
Time_to(S, T, q) ==
    LET jd == to_jd_tt(S, q)
    IN  from_julian_day(T, jd)

\* Time::<T>::from(t) for t: Time<S>, S # T (impl_time_conversions!)
From_from(S, T, q) == Time_to(S, T, q)

-----------------------------------------------------------------------------
(***************************************************************************)
(* Civil UTC (src/instant.rs: Time::to_utc, Time::from_utc).  A            *)
(* chrono::DateTime<Utc> is [secs, nanos]: the whole seconds since         *)
(* 1970-01-01T00:00:00 as an f64 holding an integer, and the nanoseconds   *)
(* of the second.  The casts `as i64` and `as u32` saturate; the values    *)
(* cast here stay far below 2^53.                                          *)
(***************************************************************************)

\* f64::floor
FFloor(x) ==
    IF x.s = 0 \/ x.e >= 0 THEN x
    ELSE LET sh == BigShr(x.m, 0 - x.e)
         IN  IF x.s > 0 THEN FRound(1, sh.q, 0, FALSE)
             ELSE FRound(-1, IF sh.sticky THEN BigAdd(sh.q, <<1>>) ELSE sh.q,
                         0, FALSE)

\* An f64 holding an integer of magnitude below 2^30, as that integer.
FToInt(x) == IF x.s < 0 THEN 0 - AsUsize(FAbs(x)) ELSE AsUsize(x)

F64_1E9 == FromInt(1000000000)

\* chrono's NaiveDate::MIN (-262143-01-01) and NaiveDate::MAX
\* (+262142-12-31), in days since 1970-01-01.
CHRONO_MIN_DAY == -96465292

CHRONO_MAX_DAY == 95026236

\* DateTime::<Utc>::from_timestamp(secs, nsecs): None when the date is out
\* of chrono's range or nsecs is no nanosecond count of that second (a
\* count of 1e9 or more stands for a leap second, at second 59 only).
DateTime_from_timestamp(secs, nsecs) ==
    LET days == FFloor(FDiv(secs, SECONDS_PER_DAY))
        sod  == FToInt(FSub(secs, FMul(days, SECONDS_PER_DAY)))
    IN  IF /\ Computed(days) /\ Computed(sod)
           /\ FLe(FromInt(CHRONO_MIN_DAY), days)
           /\ FLe(days, FromInt(CHRONO_MAX_DAY))
           /\ \/ nsecs < 1000000000
              \/ nsecs < 2000000000 /\ sod % 60 = 59
        THEN Some([secs |-> secs, nanos |-> nsecs])
        ELSE None

\* Time::<S>::to_utc
Time_to_utc(S, q) ==
    LET jd_ut == Time_to(S, "UT", q)
        seconds_since_epoch == FMul(FSub(jd_ut, UNIX_EPOCH_JD), SECONDS_PER_DAY)
        secs  == FFloor(seconds_since_epoch)
        nanos == AsUsize(FMul(FSub(seconds_since_epoch, secs), F64_1E9))
    IN  IF /\ Computed(jd_ut) /\ Computed(seconds_since_epoch)
           /\ Computed(secs) /\ Computed(nanos)
        THEN DateTime_from_timestamp(secs, nanos)
        ELSE None

\* Time::<S>::from_utc
Time_from_utc(S, datetime) ==
    LET seconds_since_epoch == datetime.secs
        nanos == FDiv(FromInt(datetime.nanos), F64_1E9)
        jd_ut == FAdd(UNIX_EPOCH_JD,
                      seconds_to_days(FAdd(seconds_since_epoch, nanos)))
    IN  IF Computed(nanos) /\ Computed(jd_ut) THEN Time_to("UT", S, jd_ut)
        ELSE jd_ut

\* <T as PeriodTimeTarget<S>>::convert for a scale marker T: value.to::<T>()
PeriodTimeTarget_Scale_convert(S, T, value) == Time_to(S, T, value)

\* Interval<Time<S>>::to::<T>():
\* Interval::new(Target::convert(self.start), Target::convert(self.end))
Interval_to(S, T, p) ==
    Interval_new(PeriodTimeTarget_Scale_convert(S, T, p.start),
                 PeriodTimeTarget_Scale_convert(S, T, p.end))

\* The two conversions, applied to computed values.
to_utc(S, q) == Eval(<<"to_utc", S, q>>)

from_utc(S, datetime) == Eval(<<"from_utc", S, datetime>>)

\* The outcome of a call: it returned a value, or it panicked.
Returned(v) == [exit |-> "returned", value |-> v]

Panicked == [exit |-> "panicked", value |-> None]

\* <DateTime<Utc> as PeriodTimeTarget<S>>::convert:
\* value.to_utc().expect(..), a panic when to_utc() is None.
PeriodTimeTarget_Utc_convert(S, value) ==
    LET r == Time_to_utc(S, value)
    IN  IF r = None THEN Panicked ELSE Returned(r[1])

\* Interval<Time<S>>::to::<DateTime<Utc>>():
\* Interval::new(Target::convert(self.start), Target::convert(self.end))
Interval_to_Utc(S, p) ==
    LET st == PeriodTimeTarget_Utc_convert(S, p.start)
        en == PeriodTimeTarget_Utc_convert(S, p.end)
    IN  IF st.exit = "panicked" \/ en.exit = "panicked" THEN Panicked
        ELSE Returned(Interval_new(st.value, en.value))

-----------------------------------------------------------------------------
(***************************************************************************)
(* The C ABI (tempoch-ffi).  A call leaves [exit, status, ret, out]:       *)
(* exit is "returned" (the body ran to a return), "caught" (a panic was    *)
(* caught and the default status returned) or the way a panic left the     *)
(* function; status is the TempochStatus returned (an Option), ret the     *)
(* f64 returned (an Option), out what the call wrote behind the out        *)
(* pointer (None: nothing written).  `panics` says that the core logic     *)
(* the function calls panics; `escape` is what the build does with a       *)
(* panic that reaches the extern "C" frame.                                *)
(***************************************************************************)

\* enum TempochStatus, #[repr(i32)]
TempochStatus_Ok == 0

TempochStatus_NullPointer == 1

TempochStatus_UtcConversionFailed == 2

TempochStatus_InvalidPeriod == 3

TempochStatus_NoIntersection == 4

StatusReturn(code, out) ==
    [exit |-> "returned", status |-> Some(code), ret |-> None, out |-> out]

ValueReturn(v) ==
    [exit |-> "returned", status |-> None, ret |-> Some(v), out |-> None]

\* A panic on its way out of the function it was raised in.
Unwinding == [exit |-> "panicked", status |-> None, ret |-> None, out |-> None]

\* A panic that reaches the frame of an extern "C" function: the process
\* aborts, or the unwinding goes on into the C caller, depending on the
\* toolchain and the panic strategy.
PanicEscapes == {"aborted", "unwound"}

Escaped(escape) == [Unwinding EXCEPT !.exit = escape]

\* catch_panic!($default, $body): std::panic::catch_unwind around the body,
\* Ok(status) => status, Err(_) => $default.
catch_panic(default, body) ==
    IF body.exit = "panicked"
    THEN [StatusReturn(default, body.out) EXCEPT !.exit = "caught"]
    ELSE body

\* A body that is not under catch_panic!.
no_catch(escape, body) ==
    IF body.exit = "panicked" THEN Escaped(escape) ELSE body

\* TempochPeriodMjd
TempochPeriodMjd(start_mjd, end_mjd) ==
    [start_mjd |-> start_mjd, end_mjd |-> end_mjd]

\* TempochPeriodMjd::from_period
TempochPeriodMjd_from_period(p) == TempochPeriodMjd(p.start, p.end)

\* TempochPeriodMjd::to_period
TempochPeriodMjd_to_period(c) == Interval_new(c.start_mjd, c.end_mjd)

\* Interval::intersection on Interval<ModifiedJulianDate>, whose order is
\* the order of the f64 values.
Interval_Mjd_intersection(self, other) ==
    LET start == IF FLe(other.start, self.start) THEN self.start
                 ELSE other.start
        end   == IF FLe(self.end, other.end) THEN self.end ELSE other.end
    IN  IF FLt(start, end) THEN Some(Interval_new(start, end)) ELSE None

\* The same function with the validation moved before the null check.
tempoch_period_mjd_new_mut_validate_first(start_mjd, end_mjd, null) ==
    IF FLt(end_mjd, start_mjd)
    THEN StatusReturn(TempochStatus_InvalidPeriod, None)
    ELSE IF null THEN StatusReturn(TempochStatus_NullPointer, None)
    ELSE StatusReturn(TempochStatus_Ok,
                      Some(TempochPeriodMjd(start_mjd, end_mjd)))

\* tempoch_period_mjd_new(start_mjd, end_mjd, out)
tempoch_period_mjd_new(start_mjd, end_mjd, null) ==
    IF null THEN StatusReturn(TempochStatus_NullPointer, None)
    ELSE IF FLt(end_mjd, start_mjd)
    THEN StatusReturn(TempochStatus_InvalidPeriod, None)
    ELSE StatusReturn(TempochStatus_Ok,
                      Some(TempochPeriodMjd(start_mjd, end_mjd)))

\* tempoch_period_mjd_intersection(a, b, out), a and b being pa_c and
\* pb_c here; the core logic is
\* to_period and Interval::intersection.
tempoch_period_mjd_intersection(pa_c, pb_c, null, panics, escape) ==
    no_catch(escape,
        IF null THEN StatusReturn(TempochStatus_NullPointer, None)
        ELSE IF panics THEN Unwinding
        ELSE LET pa == TempochPeriodMjd_to_period(pa_c)
                 pb == TempochPeriodMjd_to_period(pb_c)
                 r  == Interval_Mjd_intersection(pa, pb)
             IN  IF r # None
                 THEN StatusReturn(TempochStatus_Ok,
                                   Some(TempochPeriodMjd_from_period(r[1])))
                 ELSE StatusReturn(TempochStatus_NoIntersection, None))

\* TempochUtc
TempochUtc(year, month, day, hour, minute, second, nanosecond) ==
    [year |-> year, month |-> month, day |-> day, hour |-> hour,
     minute |-> minute, second |-> second, nanosecond |-> nanosecond]

\* The proleptic Gregorian calendar of chrono::NaiveDate.
IsLeapYear(y) == y % 4 = 0 /\ (y % 100 # 0 \/ y % 400 = 0)

DaysInMonth(y, m) ==
    CASE m \in {4, 6, 9, 11} -> 30
      [] m = 2               -> IF IsLeapYear(y) THEN 29 ELSE 28
      [] OTHER               -> 31

\* Days from 1970-01-01 to the civil date y-m-d.
DaysFromCivil(y, m, d) ==
    LET yy  == IF m <= 2 THEN y - 1 ELSE y
        era == yy \div 400
        yoe == yy - era * 400
        mp  == IF m > 2 THEN m - 3 ELSE m + 9
        doy == (153 * mp + 2) \div 5 + d - 1
        doe == yoe * 365 + yoe \div 4 - yoe \div 100 + doy
    IN  era * 146097 + doe - 719468

\* The civil date [year, month, day] of the day z days from 1970-01-01.
CivilFromDays(z) ==
    LET zz  == z + 719468
        era == zz \div 146097
        doe == zz - era * 146097
        yoe == (doe - doe \div 1460 + doe \div 36524 - doe \div 146096)
               \div 365
        doy == doe - (365 * yoe + yoe \div 4 - yoe \div 100)
        mp  == (5 * doy + 2) \div 153
        m   == IF mp < 10 THEN mp + 3 ELSE mp - 9
    IN  [year  |-> yoe + era * 400 + (IF m <= 2 THEN 1 ELSE 0),
         month |-> m,
         day   |-> doy - (153 * mp + 2) \div 5 + 1]

\* TempochUtc::into_chrono: NaiveDate::from_ymd_opt, then
\* and_hms_nano_opt (a nanosecond count of 1e9 or more stands for a leap
\* second, at second 59 only), each None on a field out of range.
TempochUtc_into_chrono(utc) ==
    IF /\ utc.year \in -262143 .. 262142
       /\ utc.month \in 1 .. 12
       /\ utc.day \in 1 .. DaysInMonth(utc.year, utc.month)
       /\ utc.hour < 24 /\ utc.minute < 60 /\ utc.second < 60
       /\ \/ utc.nanosecond < 1000000000
          \/ utc.nanosecond < 2000000000 /\ utc.second = 59
    THEN Some([secs  |-> FAdd(FMul(FromInt(DaysFromCivil(utc.year, utc.month,
                                                         utc.day)),
                                   SECONDS_PER_DAY),
                              FromInt(utc.hour * 3600 + utc.minute * 60
                                      + utc.second)),
               nanos |-> utc.nanosecond])
    ELSE None

\* TempochUtc::from_chrono
TempochUtc_from_chrono(dt) ==
    LET days == FFloor(FDiv(dt.secs, SECONDS_PER_DAY))
        sod  == FToInt(FSub(dt.secs, FMul(days, SECONDS_PER_DAY)))
        date == CivilFromDays(FToInt(days))
    IN  TempochUtc(date.year, date.month, date.day, sod \div 3600,
                   (sod % 3600) \div 60, sod % 60, dt.nanos)

\* The body of tempoch_jd_from_utc (S = "JD") and tempoch_mjd_from_utc
\* (S = "MJD"); the core logic is Time::<S>::from_utc.
from_utc_body(S, utc, null, panics) ==
    IF null THEN StatusReturn(TempochStatus_NullPointer, None)
    ELSE LET dt == TempochUtc_into_chrono(utc)
         IN  IF dt = None
             THEN StatusReturn(TempochStatus_UtcConversionFailed, None)
             ELSE IF panics THEN Unwinding
             ELSE StatusReturn(TempochStatus_Ok,
                               Some(from_utc(S, dt[1])))

\* The same body with *out zeroed before the conversion is tried.
to_utc_body_mut_clear_first(S, value, null, panics) ==
    IF null THEN StatusReturn(TempochStatus_NullPointer, None)
    ELSE IF panics THEN Unwinding
    ELSE LET dt == to_utc(S, value)
         IN  IF dt # None
             THEN StatusReturn(TempochStatus_Ok,
                               Some(TempochUtc_from_chrono(dt[1])))
             ELSE StatusReturn(TempochStatus_UtcConversionFailed,
                               Some(TempochUtc(0, 0, 0, 0, 0, 0, 0)))

\* The body of tempoch_jd_to_utc (S = "JD") and tempoch_mjd_to_utc
\* (S = "MJD"); the core logic is Time::<S>::to_utc.
to_utc_body(S, value, null, panics) ==
    IF null THEN StatusReturn(TempochStatus_NullPointer, None)
    ELSE IF panics THEN Unwinding
    ELSE LET dt == to_utc(S, value)
         IN  IF dt # None
             THEN StatusReturn(TempochStatus_Ok,
                               Some(TempochUtc_from_chrono(dt[1])))
             ELSE StatusReturn(TempochStatus_UtcConversionFailed, None)

tempoch_jd_from_utc(utc, null, panics) ==
    catch_panic(TempochStatus_UtcConversionFailed,
                from_utc_body("JD", utc, null, panics))

tempoch_jd_to_utc(jd, null, panics) ==
    catch_panic(TempochStatus_UtcConversionFailed,
                to_utc_body("JD", jd, null, panics))

tempoch_mjd_from_utc(utc, null, panics) ==
    catch_panic(TempochStatus_UtcConversionFailed,
                from_utc_body("MJD", utc, null, panics))

tempoch_mjd_to_utc(mjd, null, panics) ==
    catch_panic(TempochStatus_UtcConversionFailed,
                to_utc_body("MJD", mjd, null, panics))

\* qtty_ffi::QttyQuantity
QttyQuantity(value, unit) == [value |-> value, unit |-> unit]

\* The units of the quantities passed in: two of time, one of length.
QttyUnits == {"Day", "Second", "Meter"}

\* QttyQuantity::convert_to(UnitId::Day): None when the unit is not one of
\* time.
QttyQuantity_convert_to_Day(q) ==
    CASE q.unit = "Day"    -> Some(q)
      [] q.unit = "Second" ->
            Some(QttyQuantity(FDiv(q.value, SECONDS_PER_DAY), "Day"))
      [] OTHER             -> None

\* The body of tempoch_jd_add_qty and of tempoch_mjd_add_qty; the core
\* logic is Time::add_duration.
add_qty_body(value, duration, null, panics) ==
    IF null THEN StatusReturn(TempochStatus_NullPointer, None)
    ELSE LET q == QttyQuantity_convert_to_Day(duration)
         IN  IF q = None
             THEN StatusReturn(TempochStatus_UtcConversionFailed, None)
             ELSE IF panics THEN Unwinding
             ELSE StatusReturn(TempochStatus_Ok,
                               Some(FAdd(value, q[1].value)))

tempoch_jd_add_qty(jd, duration, null, panics) ==
    catch_panic(TempochStatus_UtcConversionFailed,
                add_qty_body(jd, duration, null, panics))

tempoch_mjd_add_qty(mjd, duration, null, panics) ==
    catch_panic(TempochStatus_UtcConversionFailed,
                add_qty_body(mjd, duration, null, panics))

\* tempoch_jd_to_scale(jd, scale): the JD arm returns jd, every other arm
\* tempoch_jd_to_<scale>(jd) = JulianDate::new(jd).to::<S>().value().
tempoch_jd_to_scale(jd, scale, panics, escape) ==
    no_catch(escape,
        IF scale = "JD" THEN ValueReturn(jd)
        ELSE IF panics THEN Unwinding
        ELSE ValueReturn(Time_to("JD", scale, jd)))

\* tempoch_scale_to_jd(value, scale): the JD arm returns value, every other
\* arm tempoch_<scale>_to_jd(value) = Time::<S>::new(value).to::<JD>().value().
tempoch_scale_to_jd(value, scale, panics, escape) ==
    no_catch(escape,
        IF scale = "JD" THEN ValueReturn(value)
        ELSE IF panics THEN Unwinding
        ELSE ValueReturn(Time_to(scale, "JD", value)))

\* The exported functions that take an out pointer.
OutPointerFunctions ==
    {"tempoch_period_mjd_new", "tempoch_period_mjd_intersection",
     "tempoch_jd_from_utc", "tempoch_jd_to_utc", "tempoch_mjd_from_utc",
     "tempoch_mjd_to_utc", "tempoch_jd_add_qty", "tempoch_mjd_add_qty"}

\* A call of the exported function fn.
ffi_call(fn, args, null, panics, escape) ==
    CASE fn = "tempoch_period_mjd_new" ->
            tempoch_period_mjd_new(args[1], args[2], null)
      [] fn = "tempoch_period_mjd_intersection" ->
            tempoch_period_mjd_intersection(args[1], args[2], null, panics,
                                            escape)
      [] fn = "tempoch_jd_from_utc" ->
            tempoch_jd_from_utc(args[1], null, panics)
      [] fn = "tempoch_jd_to_utc" -> tempoch_jd_to_utc(args[1], null, panics)
      [] fn = "tempoch_mjd_from_utc" ->
            tempoch_mjd_from_utc(args[1], null, panics)
      [] fn = "tempoch_mjd_to_utc" ->
            tempoch_mjd_to_utc(args[1], null, panics)
      [] fn = "tempoch_jd_add_qty" ->
            tempoch_jd_add_qty(args[1], args[2], null, panics)
      [] fn = "tempoch_mjd_add_qty" ->
            tempoch_mjd_add_qty(args[1], args[2], null, panics)
      [] fn = "tempoch_jd_to_scale" ->
            tempoch_jd_to_scale(args[1], args[2], panics, escape)
      [] fn = "tempoch_scale_to_jd" ->
            tempoch_scale_to_jd(args[1], args[2], panics, escape)

-----------------------------------------------------------------------------
(* The values the machines below convert. *)

MaxConvDay == 1

\* The day number of 2000-01-01 in the native count of scale S.
EpochDay(S) ==
    CASE S = "MJD"      -> 51544
      [] S = "GPS"      -> 7300
      [] S = "UnixTime" -> 10957
      [] OTHER          -> 2451545

\* Native values of scale S: 0.6 days into a day, every 1000 days from 2000.
ConvValues_op(S) ==
    {Dec(10 * (EpochDay(S) + 1000 * d) + 6, 1) : d \in 0 .. MaxConvDay}

MaxRtDay == 1

MaxTenth == 3

MaxSecAfter == 2

\* Native values of S and JD(TT) values: tenths of a day from noon of
\* 2000-01-01, every 1000 days.
RtNatives(S) ==
    {Dec(10 * (EpochDay(S) + 1000 * d) + 5 + f, 1) :
        d \in 0 .. MaxRtDay, f \in 0 .. MaxTenth}

RtCanonicals ==
    {Dec(10 * (2451545 + 1000 * d) + f, 1) :
        d \in 0 .. MaxRtDay, f \in 0 .. MaxTenth}

\* Unix day values from one second before each leap-second epoch to
\* MaxSecAfter seconds after it.
UnixLeapProbes ==
    {FAdd(FSub(LEAP_SECONDS[k][1], UNIX_EPOCH_JD),
          FDiv(FromInt(s), SECONDS_PER_DAY)) :
        k \in 1 .. Len(LEAP_SECONDS), s \in -1 .. MaxSecAfter}

\* Seconds past a leap-second epoch E at which a JD(TT) is taken: before
\* the TT image of E, inside the leap second, and where the estimate of
\* UnixTime::from_jd_tt has passed E.
UnixLeapCanonicalOffsets == {40, 60, 69, 70}

\* JD(TT) values next to the TT image of each leap-second epoch.
UnixLeapCanonicalProbes ==
    {FAdd(LEAP_SECONDS[k][1], FDiv(FromInt(s), SECONDS_PER_DAY)) :
        k \in 1 .. Len(LEAP_SECONDS), s \in UnixLeapCanonicalOffsets}

\* The UT values at which delta_t_seconds_from_ut changes regime.
RegimeBoundaries == {JD_EPOCH_948_UT, JD_1600, JD_1992, JD_2026}

\* Seconds past a boundary, in tenths.
RegimeProbeOffsets == {0, 600, 1500, 18302}

\* JD(TT) values whose UT image lies next to a regime boundary.
RegimeProbes ==
    {FAdd(bd, FDiv(Dec(ds, 1), SECONDS_PER_DAY)) :
        bd \in RegimeBoundaries, ds \in RegimeProbeOffsets}

\* Half-days before and after a leap-second epoch.
MaxLeapHalfDays == 1

\* The queries of tai_minus_utc: every epoch of the table, the instants
\* around it, and the 2 400 000.0 of tai_minus_utc_pre_1972_returns_10.
LeapQueries_op ==
    {Dec(LEAP_SECONDS_X10[k][1] + 5 * h, 1) :
        k \in 1 .. Len(LEAP_SECONDS_X10),
        h \in -MaxLeapHalfDays .. MaxLeapHalfDays} \cup {FromInt(2400000)}

\* The UT dates Delta T is evaluated at run from 2025.0 (JD 2460676.5) in
\* steps of FutureStepDays days, MaxFutureSteps of them (more than ten years).
FutureStepDays == 30

MaxFutureSteps == 125

JD_2025 == Dec(24606765, 1)

\* The arguments of the tests of delta_t.rs: delta_t_ancient_sample,
\* delta_t_medieval_sample, delta_t_table_sample, delta_t_2000, delta_t_2010,
\* delta_t_2020, delta_t_2025, delta_t_extrapolated_near_future.
DeltaTTestArgs ==
    {FromInt(2000000), FromInt(2100000), Dec(23127525, 1), J2000,
     Dec(24551975, 1), Dec(24588495, 1), JD_2025, Dec(24625025, 1)}

\* The table epochs delta_t_table is called at: 1620 + 2 k years.
MaxTableTerm == 190

\* The arguments of the regime functions called on their own:
\* delta_t_table at its epochs, before its first epoch (0, 2 000 000, the
\* start of its regime), after its last (2 500 000, 1e9) and at the
\* 2 449 356.0 of delta_t_table_upper_clip; delta_t_observed where the
\* fractional year is 1992 + k; delta_t_recent at 1990.0, 2000.0, 2010.0.
DeltaTFnArgs_op(fn) ==
    CASE fn = "delta_t_table" ->
            {FAdd(JD_TABLE_START_1620, FMul(BIENNIAL_STEP_D, FromInt(k))) :
                k \in 0 .. MaxTableTerm}
            \cup {FZero, FromInt(2000000), JD_1600, JD_1992, FromInt(2449356),
                  FromInt(2500000), FromInt(1000000000)}
      [] fn = "delta_t_observed" ->
            {FAdd(J2000, FMul(JULIAN_YEAR, FromInt(k - 8))) :
                k \in 0 .. OBSERVED_TERMS - 1}
      [] fn = "delta_t_recent" ->
            {FAdd(JD_YEAR_2000_UT, FMul(DECADE_D, FromInt(d))) : d \in -1 .. 1}

\* A call of a regime function on its own, with what it leaves: the
\* argument, the seconds returned, the table index read (delta_t_table)
\* and the seconds of the regime above (at a boundary).
DeltaTCallOf(jd, val, idx, above) ==
    [jd |-> jd, val |-> val, idx |-> idx, above |-> above]

\* The calls of each kind: delta_t_table(jd); delta_t_observed(jd) and
\* delta_t_recent(jd); at a boundary, the arm below it and the arm above
\* it.
DeltaTCalls_op(kind) ==
    CASE kind = "table" ->
            {DeltaTCallOf(jd, delta_t_fn_at("delta_t_table", jd),
                          delta_t_table_index(jd), FZero) :
                jd \in DeltaTFnArgs_op("delta_t_table")}
      [] kind \in {"delta_t_observed", "delta_t_recent"} ->
            {DeltaTCallOf(jd, delta_t_fn_at(kind, jd), 0, FZero) :
                jd \in DeltaTFnArgs_op(kind)}
      [] kind = "boundary" ->
            {DeltaTCallOf(bd, delta_t_fn_at(RegimeBelow(bd), bd), 0,
                          delta_t_fn_at(RegimeAbove(bd), bd)) :
                bd \in RegimeBoundaries}

\* Whole days before and after a regime boundary.
MaxBoundaryDays == 1

RegimeNeighbours ==
    {FAdd(bd, FromInt(d)) :
        bd \in RegimeBoundaries, d \in -MaxBoundaryDays .. MaxBoundaryDays}

DeltaTProbes_op ==
    {FAdd(JD_2025, FromInt(FutureStepDays * k)) : k \in 0 .. MaxFutureSteps}
        \cup RegimeBoundaries \cup RegimeNeighbours \cup DeltaTTestArgs

\* The instants a chain of conversions starts from: 0.6 days into
\* 2000-01-01 and every 1000 days after it, up to MaxPathDay; on UnixTime
\* also one second after the leap-second epoch 1972-07-01; on TT also
\* 150 s after the JD(TT) that equals the UT boundary 2305447.5.
MaxPathDay == 0

PathValues_op(S) ==
    {Dec(10 * (EpochDay(S) + 1000 * d) + 6, 1) : d \in 0 .. MaxPathDay}
        \cup (IF S = "UnixTime"
              THEN {FAdd(FSub(LEAP_SECONDS[2][1], UNIX_EPOCH_JD),
                         FDiv(FromInt(1), SECONDS_PER_DAY))}
              ELSE {})
        \cup (IF S = "TT"
              THEN {FAdd(JD_1600, FDiv(FromInt(150), SECONDS_PER_DAY))}
              ELSE {})

\* The instants exported to civil UTC: 0.6 days into 2000-01-01 and every
\* 1000 days after it, up to MaxUtcDay, and the day counts +-10^9, which
\* lie outside chrono's range on every scale.
MaxUtcDay == 1

UtcValues_op(S) ==
    {Dec(10 * (EpochDay(S) + 1000 * d) + 6, 1) : d \in 0 .. MaxUtcDay}
        \cup {FromInt(1000000000), FromInt(-1000000000)}

\* Half a second, in days, the length of the short periods below.
HALF_SECOND == FDiv(Dec(5, 1), SECONDS_PER_DAY)

\* The periods of scale S that are converted, each with start <= end: an
\* instant and a period of 1000 days from 0.6 days into 2000-01-01; on TT,
\* half a second around the instant 69.184 s after a leap-second epoch
\* (the second epoch of the table and the last one); on UT, from 0.1 s
\* before the 1992 boundary of Delta T to 0.1 s after it.
PeriodToArgs(S) ==
    LET v0 == Dec(10 * EpochDay(S) + 6, 1)
        v1 == Dec(10 * (EpochDay(S) + 1000) + 6, 1)
    IN  {Interval_new(v0, v0), Interval_new(v0, v1)}
        \cup (IF S = "TT"
              THEN {LET x == FAdd(LEAP_SECONDS[k][1],
                                  FDiv(Dec(689, 1), SECONDS_PER_DAY))
                    IN  Interval_new(x, FAdd(x, HALF_SECOND)) :
                        k \in {2, Len(LEAP_SECONDS)}}
              ELSE {})
        \cup (IF S = "UT"
              THEN {LET d == FDiv(Dec(1, 1), SECONDS_PER_DAY)
                    IN  Interval_new(FSub(JD_1992, d), FAdd(JD_1992, d))}
              ELSE {})

\* The calls p.to::<T>() on the periods of scale S, each with what it
\* returns.
PeriodToCalls_op(S, T) ==
    {[self |-> p, ret |-> Interval_to(S, T, p)] : p \in PeriodToArgs(S)}

\* The largest whole MJD passed to the period functions.
MaxMjd == 5

MjdValues == {FromInt(k) : k \in 0 .. MaxMjd}

\* Civil timestamps: noon of 2000-01-01, the end of a leap day, a leap
\* second, and three with a field out of range (month 13, 29 February of
\* 2001, hour 24).
UtcDates ==
    {TempochUtc(2000, 1, 1, 12, 0, 0, 0),
     TempochUtc(2000, 2, 29, 23, 59, 59, 500000000),
     TempochUtc(2016, 12, 31, 23, 59, 59, 1500000000),
     TempochUtc(2000, 13, 1, 0, 0, 0, 0),
     TempochUtc(2001, 2, 29, 0, 0, 0, 0),
     TempochUtc(2000, 1, 1, 24, 0, 0, 0)}

\* The largest value of a quantity added to a date.
MaxQty == 1

Quantities ==
    {QttyQuantity(FromInt(v), u) : v \in 1 .. MaxQty, u \in QttyUnits}

\* The argument lists the exported function fn is called with; a date
\* and 1e9, a day count that no chrono::DateTime holds, for the
\* conversions.
FfiArgs_op(fn) ==
    CASE fn = "tempoch_period_mjd_new" ->
            {<<st, en>> : st \in MjdValues, en \in MjdValues}
      [] fn = "tempoch_period_mjd_intersection" ->
            {<<TempochPeriodMjd(a1, a2), TempochPeriodMjd(b1, b2)>> :
                a1 \in MjdValues, a2 \in MjdValues,
                b1 \in MjdValues, b2 \in MjdValues}
      [] fn \in {"tempoch_jd_from_utc", "tempoch_mjd_from_utc"} ->
            {<<utc>> : utc \in UtcDates}
      [] fn = "tempoch_jd_to_utc" ->
            {<<Dec(24515456, 1)>>, <<FromInt(1000000000)>>}
      [] fn = "tempoch_mjd_to_utc" ->
            {<<Dec(515451, 1)>>, <<FromInt(1000000000)>>}
      [] fn = "tempoch_jd_add_qty" ->
            {<<Dec(24515456, 1), q>> : q \in Quantities}
      [] fn = "tempoch_mjd_add_qty" ->
            {<<Dec(515451, 1), q>> : q \in Quantities}
      [] fn = "tempoch_jd_to_scale" ->
            {<<Dec(24515456, 1), S>> : S \in Scales}
      [] fn = "tempoch_scale_to_jd" ->
            {<<Dec(10 * EpochDay(S) + 6, 1), S>> : S \in Scales}

\* What RoundTripNative draws from, for scale S.
RtNativeInputs_op(S) ==
    RtNatives(S) \cup (IF S = "UnixTime" THEN UnixLeapProbes ELSE {})
                 \cup (IF S = "GPS" THEN {FZero} ELSE {})

\* What RoundTripCanonical draws from, for scale S.
RtCanonicalInputs_op(S) ==
    RtCanonicals \cup (IF S = "UT" THEN RegimeProbes ELSE {})
                 \cup (IF S = "UnixTime" THEN UnixLeapCanonicalProbes ELSE {})

-----------------------------------------------------------------------------
\* The operation named by t[1] applied to the rest of t.
Apply(t) ==
    CASE t[1] = "BigAdd" -> BigAdd_op(t[2], t[3])
      [] t[1] = "BigSub" -> BigSub_op(t[2], t[3])
      [] t[1] = "BigMulSmall" -> BigMulSmall_op(t[2], t[3])
      [] t[1] = "BigMul" -> BigMul_op(t[2], t[3])
      [] t[1] = "BigDivSmall" -> BigDivSmall_op(t[2], t[3])
      [] t[1] = "BigShl" -> BigShl_op(t[2], t[3])
      [] t[1] = "BigShr" -> BigShr_op(t[2], t[3])
      [] t[1] = "BigDivRuns" -> BigDivRuns_op(t[2], t[3], t[4])
      [] t[1] = "BigDivTen" -> BigDivTen_op(t[2], t[3], t[4])
      [] t[1] = "BigModShift" -> BigModShift_op(t[2], t[3], t[4])
      [] t[1] = "FxMul" -> FxMul_op(t[2], t[3])
      [] t[1] = "FxSinSmall" -> FxSinSmall_op(t[2])
      [] t[1] = "FxTriple" -> FxTriple_op(t[2])
      [] t[1] = "round" -> FRound_op(t[2], t[3], t[4], t[5])
      [] t[1] = "add" -> FAdd_op(t[2], t[3])
      [] t[1] = "mul" -> FMul_op(t[2], t[3])
      [] t[1] = "div" -> FDiv_op(t[2], t[3])
      [] t[1] = "sin" -> FSin_op(t[2])
      [] t[1] = "lit" -> FLitBig_op(t[2], t[3], t[4])
      [] t[1] = "ConvValues" -> ConvValues_op(t[2])
      [] t[1] = "RtNativeInputs" -> RtNativeInputs_op(t[2])
      [] t[1] = "RtCanonicalInputs" -> RtCanonicalInputs_op(t[2])
      [] t[1] = "LeapQueries" -> LeapQueries_op
      [] t[1] = "DeltaTProbes" -> DeltaTProbes_op
      [] t[1] = "delta_t" -> delta_t_seconds_from_ut(t[2])
      [] t[1] = "PathValues" -> PathValues_op(t[2])
      [] t[1] = "UtcValues" -> UtcValues_op(t[2])
      [] t[1] = "to_utc" -> Time_to_utc(t[2], t[3])
      [] t[1] = "from_utc" -> Time_from_utc(t[2], t[3])
      [] t[1] = "period_to_utc" -> Interval_to_Utc(t[2], t[3])
      [] t[1] = "FfiArgs" -> FfiArgs_op(t[2])
      [] t[1] = "ffi_call" -> ffi_call(t[2], t[3], t[4], t[5], t[6])
      [] t[1] = "tai_minus_utc" -> tai_minus_utc(t[2])
      [] t[1] = "DeltaTCalls" -> DeltaTCalls_op(t[2])
      [] t[1] = "UT_from_jd_tt_step" -> UT_from_jd_tt_step(t[2], t[3])
      [] t[1] = "delta_t_fn" -> delta_t_fn(t[2], t[3])
      [] t[1] = "tdb_minus_tt_days" -> tdb_minus_tt_days(t[2])
      [] t[1] = "PeriodToCalls" -> PeriodToCalls_op(t[2], t[3])
      [] t[1] = "to_jd_tt" -> TimeScale_to_jd_tt(t[2], t[3])
      [] t[1] = "from_jd_tt" -> TimeScale_from_jd_tt(t[2], t[3])

\* The evaluator: its argument is computed first, once, and then the
\* operation is applied to the computed values.
Eval(t) == CHOOSE r \in {Apply(u) : u \in {t}} : TRUE

ConvValues(S) == Eval(<<"ConvValues", S>>)

RtNativeInputs(S) == Eval(<<"RtNativeInputs", S>>)

RtCanonicalInputs(S) == Eval(<<"RtCanonicalInputs", S>>)

PeriodToCalls(S, T) == Eval(<<"PeriodToCalls", S, T>>)

\* One pass of UT::from_jd_tt's loop, evaluated on computed arguments.
UT_pass(jd_tt, u) == Eval(<<"UT_from_jd_tt_step", jd_tt, u>>)

DeltaTCalls(kind) == Eval(<<"DeltaTCalls", kind>>)

FfiArgs(fn) == Eval(<<"FfiArgs", fn>>)

ffi(fn, args, null, panics, escape) ==
    Eval(<<"ffi_call", fn, args, null, panics, escape>>)

UtcValues(S) == Eval(<<"UtcValues", S>>)

period_to_utc(S, p) == Eval(<<"period_to_utc", S, p>>)

PathValues(S) == Eval(<<"PathValues", S>>)

DeltaTProbes == Eval(<<"DeltaTProbes">>)

LeapQueries == Eval(<<"LeapQueries">>)

-----------------------------------------------------------------------------
(* The interval machine: from the idle state, one operation is applied to  *)
(* inputs drawn from the bounded sets.                                     *)

NoInterval == Interval_new(0, 0)

PInit ==
    /\ pc = "idle"
    /\ arg_self = NoInterval
    /\ arg_other = NoInterval
    /\ ret_opt = None
    /\ outer = NoInterval
    /\ periods = <<>>
    /\ gaps = <<>>
    /\ a = <<>>
    /\ b = <<>>
    /\ result = <<>>

\* a.intersection(&b)
Intersection ==
    /\ pc = "idle"
    /\ \E x, y \in Intervals :
          /\ arg_self' = x
          /\ arg_other' = y
          /\ ret_opt' = intersection(x, y)
    /\ pc' = "intersection"
    /\ UNCHANGED <<cvars, rvars, mvars, xvars, outer, periods, gaps, a, b, result>>

\* complement_within(outer, &periods)
ComplementWithin ==
    /\ pc = "idle"
    /\ \E o \in Periods \cup {TestOuter},
          ps \in SortedLists \cup {<<TestOuter>>, TestGaps, TestAboveMax} :
          /\ outer' = o
          /\ periods' = ps
          /\ gaps' = complement_within(o, ps)
    /\ pc' = "complement"
    /\ UNCHANGED <<cvars, rvars, mvars, xvars, arg_self, arg_other, ret_opt, a, b, result>>

\* intersect_periods(&a, &b)
IntersectPeriods ==
    /\ pc = "idle"
    /\ \E la, lb \in SortedLists \cup {TestAboveMin, TestAboveMax} :
          /\ a' = la
          /\ b' = lb
          /\ result' = intersect_periods(la, lb)
    /\ pc' = "intersect"
    /\ UNCHANGED <<cvars, rvars, mvars, xvars, arg_self, arg_other, ret_opt, outer, periods, gaps>>

\* let below = complement_within(outer, &B); intersect_periods(&A, &below)
Between ==
    /\ pc = "idle"
    /\ \E o \in Periods \cup {TestOuter},
          la, lb \in SortedLists \cup {TestAboveMin, TestAboveMax} :
          /\ Within(o, la)
          /\ Within(o, lb)
          /\ outer' = o
          /\ periods' = lb
          /\ gaps' = complement_within(o, lb)
          /\ a' = la
          /\ b' = complement_within(o, lb)
          /\ result' = intersect_periods(la, complement_within(o, lb))
    /\ pc' = "between"
    /\ UNCHANGED <<cvars, rvars, mvars, xvars, arg_self, arg_other, ret_opt>>

-----------------------------------------------------------------------------
(***************************************************************************)
(* The conversion machine: t.to::<T>() for a Time<S> t, entered directly   *)
(* or through the From impl the macro generates for the pair (S, T), runs  *)
(* S::to_jd_tt and then Time::<T>::from_julian_day.                        *)
(***************************************************************************)

CInit ==
    /\ cpc = "idle"
    /\ via = "none"
    /\ scale_s = "none"
    /\ scale_t = "none"
    /\ quantity = FZero
    /\ canon = FZero
    /\ converted = FZero
    /\ calls = <<>>

\* Entry: t.to::<T>(), or Time::<T>::from(t), which the macro generates for
\* every pair of distinct scales and which calls t.to::<T>().
ConvCall ==
    /\ cpc = "idle"
    /\ \E S \in Scales, T \in Scales, e \in {"to", "From"} :
          /\ e = "From" => S # T
          /\ scale_s' = S
          /\ scale_t' = T
          /\ via' = e
          /\ \E v \in ConvValues(S) : quantity' = v
    /\ cpc' = "to"
    /\ UNCHANGED <<canon, converted, calls, pvars, rvars, mvars, xvars>>

\* S::to_jd_tt(self.quantity)
ConvToJdTt ==
    /\ cpc = "to"
    /\ canon' = to_jd_tt(scale_s, quantity)
    /\ calls' = Append(calls, <<"to_jd_tt", scale_s>>)
    /\ cpc' = "from_julian_day"
    /\ UNCHANGED <<via, scale_s, scale_t, quantity, converted, pvars, rvars, mvars, xvars>>

\* Time::<T>::from_julian_day(jd), which calls T::from_jd_tt(jd)
ConvFromJulianDay ==
    /\ cpc = "from_julian_day"
    /\ converted' = from_julian_day(scale_t, canon)
    /\ calls' = Append(calls, <<"from_jd_tt", scale_t>>)
    /\ cpc' = "done"
    /\ UNCHANGED <<via, scale_s, scale_t, quantity, canon, pvars, rvars, mvars, xvars>>

-----------------------------------------------------------------------------
(***************************************************************************)
(* The round-trip machine: a value is taken through one scale's pair of    *)
(* functions and back, from the native side or from the canonical side.    *)
(***************************************************************************)

RInit ==
    /\ rt_dir = "idle"
    /\ rt_scale = "none"
    /\ rt_in = FZero
    /\ rt_mid = FZero
    /\ rt_back = FZero

\* S::from_jd_tt(S::to_jd_tt(v))
RoundTripNative ==
    /\ rt_dir = "idle"
    /\ \E S \in Scales :
         \E v \in RtNativeInputs(S) :
            /\ rt_scale' = S
            /\ rt_in' = v
            /\ rt_mid' = to_jd_tt(S, v)
            /\ rt_back' = from_jd_tt(S, rt_mid')
    /\ rt_dir' = "native"
    /\ UNCHANGED <<pvars, cvars, mvars, xvars>>

\* S::to_jd_tt(S::from_jd_tt(tt))
RoundTripCanonical ==
    /\ rt_dir = "idle"
    /\ \E S \in Scales :
         \E tt \in RtCanonicalInputs(S) :
            /\ rt_scale' = S
            /\ rt_in' = tt
            /\ rt_mid' = from_jd_tt(S, tt)
            /\ rt_back' = to_jd_tt(S, rt_mid')
    /\ rt_dir' = "canonical"
    /\ UNCHANGED <<pvars, cvars, mvars, xvars>>

-----------------------------------------------------------------------------
(***************************************************************************)
(* The merge machine: intersect_periods run one loop iteration at a time,  *)
(* with the indices i and j in the state.                                  *)
(***************************************************************************)

MInit ==
    /\ ip_i = 0
    /\ ip_j = 0
    /\ ip_iter = 0

\* Lists in descending order: the function is handed any two slices.
DescendingLists ==
    {<<x[2], x[1]>> :
        x \in {y \in Periods \X Periods : y[1].end <= y[2].start /\ y[1] # y[2]}}

\* The lists the merge is run on.
MergeLists == SortedLists \cup DescendingLists \cup {TestAboveMin, TestAboveMax}

\* The loop state [i, j, result] of the call in progress.
ip_state == [i |-> ip_i, j |-> ip_j, result |-> result]

\* let mut result = Vec::new(); let (mut i, mut j) = (0, 0);
MergeCall ==
    /\ pc = "idle"
    /\ \E la, lb \in MergeLists :
          /\ a' = la
          /\ b' = lb
    /\ result' = <<>>
    /\ ip_i' = 0
    /\ ip_j' = 0
    /\ ip_iter' = 0
    /\ pc' = "merge"
    /\ UNCHANGED <<cvars, rvars, xvars, arg_self, arg_other, ret_opt, outer, periods, gaps>>

\* One iteration of while i < a.len() && j < b.len() { ... }
MergeStep ==
    /\ pc = "merge"
    /\ ip_guard(a, b, ip_state)
    /\ ip_i' = ip_body(a, b, ip_state).i
    /\ ip_j' = ip_body(a, b, ip_state).j
    /\ ip_iter' = ip_iter + 1
    /\ result' = ip_body(a, b, ip_state).result
    /\ UNCHANGED <<cvars, rvars, xvars, pc, arg_self, arg_other, ret_opt, outer, periods, gaps, a, b>>

\* The loop condition fails: result is returned.
MergeReturn ==
    /\ pc = "merge"
    /\ ~ip_guard(a, b, ip_state)
    /\ pc' = "merged"
    /\ UNCHANGED <<cvars, rvars, mvars, xvars, arg_self, arg_other, ret_opt, outer, periods, gaps, a, b, result>>

-----------------------------------------------------------------------------
(***************************************************************************)
(* The leap-second machine: tai_minus_utc is called on two queries.        *)
(***************************************************************************)

LInit ==
    /\ lpc = "idle"
    /\ lq1 = FZero
    /\ lq2 = FZero
    /\ lr1 = FZero
    /\ lr2 = FZero

\* tai_minus_utc(q1); tai_minus_utc(q2)
LeapLookup ==
    /\ lpc = "idle"
    /\ \E q1, q2 \in LeapQueries :
          /\ lq1' = q1
          /\ lq2' = q2
          /\ lr1' = tai_minus_utc_at(q1)
          /\ lr2' = tai_minus_utc_at(q2)
    /\ lpc' = "looked_up"
    /\ UNCHANGED <<pvars, cvars, rvars, mvars, dvars, hvars, uvars, fvars>>

-----------------------------------------------------------------------------
(***************************************************************************)
(* The Delta T machine: delta_t_seconds_from_ut is called on a UT date.    *)
(***************************************************************************)

DInit ==
    /\ dpc = "idle"
    /\ dt_jd = FZero
    /\ dt_val = FZero
    /\ dt_idx = 0
    /\ dt_above = FZero
    /\ ut_jd_tt = FZero
    /\ ut_now = FZero
    /\ ut_evals = 0
    /\ ut_hist = <<>>

\* delta_t_seconds_from_ut(jd_ut)
DeltaTCall ==
    /\ dpc = "idle"
    /\ \E jd \in DeltaTProbes :
          /\ dt_jd' = jd
          /\ dt_val' = delta_t_seconds(jd)
    /\ dpc' = "evaluated"
    /\ UNCHANGED <<pvars, cvars, rvars, mvars, lvars, hvars, uvars, fvars,
                   svars, dt_idx, dt_above>>

\* delta_t_table(jd)
DeltaTTableCall ==
    /\ dpc = "idle"
    /\ \E call \in DeltaTCalls("table") :
          /\ dt_jd' = call.jd
          /\ dt_idx' = call.idx
          /\ dt_val' = call.val
    /\ dpc' = "table"
    /\ UNCHANGED <<pvars, cvars, rvars, mvars, lvars, hvars, uvars, fvars,
                   svars, dt_above>>

\* delta_t_observed(jd)
DeltaTObservedCall ==
    /\ dpc = "idle"
    /\ \E call \in DeltaTCalls("delta_t_observed") :
          /\ dt_jd' = call.jd
          /\ dt_val' = call.val
    /\ dpc' = "delta_t_observed"
    /\ UNCHANGED <<pvars, cvars, rvars, mvars, lvars, hvars, uvars, fvars,
                   svars, dt_idx, dt_above>>

\* delta_t_recent(jd), of src/delta_t.rs
DeltaTRecentCall ==
    /\ dpc = "idle"
    /\ \E call \in DeltaTCalls("delta_t_recent") :
          /\ dt_jd' = call.jd
          /\ dt_val' = call.val
    /\ dpc' = "delta_t_recent"
    /\ UNCHANGED <<pvars, cvars, rvars, mvars, lvars, hvars, uvars, fvars,
                   svars, dt_idx, dt_above>>

\* The two arms of the match that meet at a boundary, both called on it.
DeltaTBoundaryCall ==
    /\ dpc = "idle"
    /\ \E call \in DeltaTCalls("boundary") :
          /\ dt_jd' = call.jd
          /\ dt_val' = call.val
          /\ dt_above' = call.above
    /\ dpc' = "boundary"
    /\ UNCHANGED <<pvars, cvars, rvars, mvars, lvars, hvars, uvars, fvars,
                   svars, dt_idx>>

\* UT::from_jd_tt(jd_tt): let mut ut = jd_tt;
UtFromJdTtCall ==
    /\ dpc = "idle"
    /\ \E jd_tt \in DeltaTProbes :
          /\ ut_jd_tt' = jd_tt
          /\ ut_now' = jd_tt
          /\ ut_hist' = <<jd_tt>>
    /\ ut_evals' = 0
    /\ dpc' = "ut_loop"
    /\ UNCHANGED <<pvars, cvars, rvars, mvars, lvars, hvars, uvars, fvars,
                   dt_jd, dt_val, dt_idx, dt_above>>

\* One pass of the for loop: ut = jd_tt - dt_days;
UtFromJdTtPass ==
    /\ dpc = "ut_loop"
    /\ UT_from_jd_tt_more(ut_evals)
    /\ ut_now' = UT_pass(ut_jd_tt, ut_now)
    /\ ut_hist' = Append(ut_hist, ut_now')
    /\ ut_evals' = ut_evals + 1
    /\ UNCHANGED <<pvars, cvars, rvars, mvars, lvars, hvars, uvars, fvars,
                   dpc, dt_jd, dt_val, dt_idx, dt_above, ut_jd_tt>>

\* The loop is over: ut is returned.
UtFromJdTtReturn ==
    /\ dpc = "ut_loop"
    /\ ~UT_from_jd_tt_more(ut_evals)
    /\ dpc' = "ut_returned"
    /\ UNCHANGED <<pvars, cvars, rvars, mvars, lvars, hvars, uvars, fvars,
                   dt_jd, dt_val, dt_idx, dt_above, svars>>

-----------------------------------------------------------------------------
(***************************************************************************)
(* The chain machine: an instant of scale A is converted with Time::to,    *)
(* and the instant returned is converted again.                            *)
(***************************************************************************)

HInit ==
    /\ h_scale = "none"
    /\ h_value = FZero
    /\ h_path = <<>>
    /\ h_now = FZero

\* let t = Time::<A>::new(v);
ChainNew ==
    /\ h_scale = "none"
    /\ \E A \in Scales : \E v \in PathValues(A) :
          /\ h_scale' = A
          /\ h_value' = v
          /\ h_now' = v
    /\ h_path' = <<>>
    /\ UNCHANGED <<pvars, cvars, rvars, mvars, lvars, dvars, uvars, fvars>>

\* t.to::<T>()
ChainFirst ==
    /\ h_scale # "none"
    /\ h_path = <<>>
    /\ \E T \in Scales :
          /\ h_path' = <<T>>
          /\ h_now' = Time_to(h_scale, T, h_now)
    /\ UNCHANGED <<pvars, cvars, rvars, mvars, lvars, dvars, uvars, fvars, h_scale, h_value>>

\* t.to::<C>().to::<T>()
ChainSecond ==
    /\ Len(h_path) = 1
    /\ \E T \in Scales :
          /\ h_path' = Append(h_path, T)
          /\ h_now' = Time_to(h_path[1], T, h_now)
    /\ UNCHANGED <<pvars, cvars, rvars, mvars, lvars, dvars, uvars, fvars, h_scale, h_value>>

-----------------------------------------------------------------------------
(***************************************************************************)
(* The UTC export machine: the in-process calls that turn instants into    *)
(* chrono::DateTime<Utc>.                                                  *)
(***************************************************************************)

UInit ==
    /\ u_fn = "idle"
    /\ u_scale = "JD"
    /\ u_start = FZero
    /\ u_end = FZero
    /\ u_ret = None
    /\ u_exit = "returned"
    /\ u_target = "JD"

\* Time::<S>::new(v).to_utc()
ToUtc ==
    /\ u_fn = "idle"
    /\ \E S \in Scales : \E v \in UtcValues(S) :
          /\ u_scale' = S
          /\ u_start' = v
          /\ u_end' = v
          /\ u_ret' = to_utc(S, v)
    /\ u_exit' = "returned"
    /\ u_fn' = "to_utc"
    /\ UNCHANGED <<pvars, cvars, rvars, mvars, lvars, dvars, hvars, fvars,
                   u_target>>

\* Interval::new(Time::<S>::new(v), Time::<S>::new(w)).to::<DateTime<Utc>>()
PeriodToUtc ==
    /\ u_fn = "idle"
    /\ \E S \in Scales : \E v, w \in UtcValues(S) :
          LET call == period_to_utc(S, Interval_new(v, w))
          IN  /\ u_scale' = S
              /\ u_start' = v
              /\ u_end' = w
              /\ u_ret' = call.value
              /\ u_exit' = call.exit
    /\ u_fn' = "period_to"
    /\ UNCHANGED <<pvars, cvars, rvars, mvars, lvars, dvars, hvars, fvars,
                   u_target>>

\* Interval::new(Time::<S>::new(v), Time::<S>::new(w)).to::<T>(), v <= w
PeriodToScale ==
    /\ u_fn = "idle"
    /\ \E S \in Scales, T \in Scales : \E call \in PeriodToCalls(S, T) :
          /\ u_scale' = S
          /\ u_target' = T
          /\ u_start' = call.self.start
          /\ u_end' = call.self.end
          /\ u_ret' = call.ret
    /\ u_exit' = "returned"
    /\ u_fn' = "period_to_scale"
    /\ UNCHANGED <<pvars, cvars, rvars, mvars, lvars, dvars, hvars, fvars>>

-----------------------------------------------------------------------------
(***************************************************************************)
(* The C caller.  The library keeps no state between calls, so one call    *)
(* from the initial state shows all a call can do.  Functions without an   *)
(* out pointer are called with null = FALSE; a function that calls no      *)
(* core logic is called with panics = FALSE.                               *)
(***************************************************************************)

FInit ==
    /\ f_fn = "idle"
    /\ f_args = <<>>
    /\ f_null = FALSE
    /\ f_panic = FALSE
    /\ f_res = StatusReturn(TempochStatus_Ok, None)

FfiCall(fn, nulls, panicking) ==
    /\ \E args \in FfiArgs(fn), null \in nulls, panics \in panicking,
          escape \in PanicEscapes :
            /\ f_fn' = fn
            /\ f_args' = args
            /\ f_null' = null
            /\ f_panic' = panics
            /\ f_res' = ffi(fn, args, null, panics, escape)
    /\ UNCHANGED <<pvars, cvars, rvars, mvars, lvars, dvars, hvars, uvars>>

PeriodMjdNew ==
    /\ f_fn = "idle"
    /\ FfiCall("tempoch_period_mjd_new", BOOLEAN, {FALSE})

PeriodMjdIntersection ==
    /\ f_fn = "idle"
    /\ FfiCall("tempoch_period_mjd_intersection", BOOLEAN, BOOLEAN)

JdFromUtc ==
    /\ f_fn = "idle"
    /\ FfiCall("tempoch_jd_from_utc", BOOLEAN, BOOLEAN)

JdToUtc ==
    /\ f_fn = "idle"
    /\ FfiCall("tempoch_jd_to_utc", BOOLEAN, BOOLEAN)

MjdFromUtc ==
    /\ f_fn = "idle"
    /\ FfiCall("tempoch_mjd_from_utc", BOOLEAN, BOOLEAN)

MjdToUtc ==
    /\ f_fn = "idle"
    /\ FfiCall("tempoch_mjd_to_utc", BOOLEAN, BOOLEAN)

JdAddQty ==
    /\ f_fn = "idle"
    /\ FfiCall("tempoch_jd_add_qty", BOOLEAN, BOOLEAN)

MjdAddQty ==
    /\ f_fn = "idle"
    /\ FfiCall("tempoch_mjd_add_qty", BOOLEAN, BOOLEAN)

JdToScale ==
    /\ f_fn = "idle"
    /\ FfiCall("tempoch_jd_to_scale", {FALSE}, BOOLEAN)

ScaleToJd ==
    /\ f_fn = "idle"
    /\ FfiCall("tempoch_scale_to_jd", {FALSE}, BOOLEAN)

-----------------------------------------------------------------------------
(* The specifications. *)

Init == PInit /\ CInit /\ RInit /\ MInit /\ LInit /\ DInit /\ HInit /\ UInit /\ FInit

Next == Intersection \/ ComplementWithin \/ IntersectPeriods \/ Between

Spec == Init /\ [][Next]_vars

ConvNext == ConvCall \/ ConvToJdTt \/ ConvFromJulianDay

SpecConv == Init /\ [][ConvNext]_vars

RoundTripNext == RoundTripNative \/ RoundTripCanonical

SpecRoundTrip == Init /\ [][RoundTripNext]_vars

SpecLeap == Init /\ [][LeapLookup]_vars

DeltaTNext ==
    \/ DeltaTCall
    \/ DeltaTTableCall
    \/ UtFromJdTtCall
    \/ UtFromJdTtPass
    \/ UtFromJdTtReturn
    \/ DeltaTObservedCall
    \/ DeltaTRecentCall
    \/ DeltaTBoundaryCall

SpecDeltaT == Init /\ [][DeltaTNext]_vars

\* The steps of UtFromJdTtPass are the steps that count one more evaluation:
\* the loop body has no await, so a pass that can be made is made.
UtFromJdTtCounted ==
    /\ dpc = "ut_loop"
    /\ UT_from_jd_tt_more(ut_evals)
    /\ ut_evals' = ut_evals + 1

SpecDeltaTFair ==
    SpecDeltaT /\ WF_ut_evals(UtFromJdTtCounted) /\ WF_vars(UtFromJdTtReturn)

ChainNext == ChainNew \/ ChainFirst \/ ChainSecond

SpecChain == Init /\ [][ChainNext]_vars

UtcNext == ToUtc \/ PeriodToUtc

SpecUtc == Init /\ [][UtcNext]_vars

SpecPeriodTo == Init /\ [][PeriodToScale]_vars

FfiNext ==
    \/ PeriodMjdNew
    \/ PeriodMjdIntersection
    \/ JdFromUtc
    \/ JdToUtc
    \/ MjdFromUtc
    \/ MjdToUtc
    \/ JdAddQty
    \/ MjdAddQty
    \/ JdToScale
    \/ ScaleToJd

SpecFfi == Init /\ [][FfiNext]_vars

MergeNext == MergeCall \/ MergeStep \/ MergeReturn

SpecMerge == Init /\ [][MergeNext]_vars

\* The call runs on: an iteration whose guard holds is taken, and the
\* function returns once the guard fails.
SpecMergeFair == SpecMerge /\ WF_vars(MergeStep) /\ WF_vars(MergeReturn)

-----------------------------------------------------------------------------
(* Properties of the interval algebra. *)

MaxOf(x, y) == CHOOSE m \in {x, y} : \A n \in {x, y} : m >= n

MinOf(x, y) == CHOOSE m \in {x, y} : \A n \in {x, y} : m <= n

\* The instants over which coverage is compared: every instant an input can
\* name, those of the test inputs included.
Points == 0 .. MaxOf(MaxT, TestOuter.end)

\* Half-open membership: t lies in [p.start, p.end).
InPeriod(t, p) == p.start <= t /\ t < p.end

InList(t, ps) == \E k \in 1 .. Len(ps) : InPeriod(t, ps[k])

\* Every interval is non-empty and ends no later than the next one starts.
Chronological(ps) ==
    /\ \A k \in 1 .. Len(ps) : ps[k].start < ps[k].end
    /\ \A k \in 1 .. Len(ps) - 1 : ps[k].end <= ps[k + 1].start

Overlap(p, q) == MaxOf(p.start, q.start) < MinOf(p.end, q.end)

\* C1: intersection(a, b) is Some([max(a.start, b.start), min(a.end, b.end)))
\* exactly when max(a.start, b.start) < min(a.end, b.end), None otherwise;
\* touching (a.end = b.start) and disjoint intervals give None.
C1_IntersectionMaxMin ==
    pc = "intersection" =>
        LET lo == MaxOf(arg_self.start, arg_other.start)
            hi == MinOf(arg_self.end, arg_other.end)
        IN  /\ lo < hi => ret_opt = Some(Interval_new(lo, hi))
            /\ ~(lo < hi) => ret_opt = None
            /\ arg_self.end <= arg_other.start => ret_opt = None

C1_Witness ==
    /\ pc = "intersection"
    /\ arg_self.start < arg_self.end
    /\ arg_self.end = arg_other.start
    /\ arg_other.start < arg_other.end
    /\ ret_opt = None

\* C2: intersection is commutative: a.intersection(b) = b.intersection(a).
C2_IntersectionCommutes ==
    pc = "intersection" => ret_opt = intersection(arg_other, arg_self)

C2_Witness ==
    /\ pc = "intersection"
    /\ arg_self.start < arg_other.start
    /\ arg_other.end < arg_self.end
    /\ ret_opt = Some(arg_other)

\* C3 as stated: complement_within(outer, []) is [outer] for every bounding
\* interval outer.
C3_Original ==
    (pc = "complement" /\ periods = <<>>) => gaps = <<outer>>

\* C3 as amended: complement_within(outer, []) is [outer] when
\* outer.start < outer.end, and is empty when outer.start = outer.end.
C3_ComplementOfNothing ==
    (pc = "complement" /\ periods = <<>>) =>
        /\ outer.start < outer.end => gaps = <<outer>>
        /\ outer.start = outer.end => gaps = <<>>

C3_Witness ==
    /\ pc = "complement"
    /\ periods = <<>>
    /\ outer.start < outer.end
    /\ gaps = <<outer>>

\* C4: for sorted, non-overlapping sub-periods within outer, complement_within
\* returns exactly the uncovered gaps: chronological, each with start < end,
\* pairwise disjoint, disjoint from every sub-period, covering outer together
\* with the sub-periods; empty when the sub-periods cover outer (periods =
\* [outer] included).
C4_ComplementExact ==
    (pc \in {"complement", "between"} /\ Within(outer, periods)) =>
        /\ Chronological(gaps)
        /\ \A g \in 1 .. Len(gaps) : \A k \in 1 .. Len(periods) :
              ~Overlap(gaps[g], periods[k])
        /\ \A t \in Points :
              InPeriod(t, outer) => (InList(t, gaps) \/ InList(t, periods))
        /\ \A t \in Points :
              InList(t, gaps) <=> (InPeriod(t, outer) /\ ~InList(t, periods))
        /\ (\A t \in Points : InPeriod(t, outer) => InList(t, periods))
              => gaps = <<>>
        /\ periods = <<outer>> => gaps = <<>>

C4_Witness ==
    /\ pc = "complement"
    /\ Within(outer, periods)
    /\ Len(periods) = 2
    /\ Len(gaps) = 3

\* C5: intersect_periods(a, b) of two sorted, non-overlapping lists returns,
\* in chronological order and pairwise disjoint, exactly the non-empty
\* overlaps: an instant lies in a returned interval iff it lies in an
\* interval of a and in one of b, and no returned interval is empty.
C5_IntersectExact ==
    pc \in {"intersect", "between"} =>
        /\ Chronological(result)
        /\ \A t \in Points :
              InList(t, result) <=> (InList(t, a) /\ InList(t, b))
        /\ \A i \in 1 .. Len(a) : \A j \in 1 .. Len(b) :
              Overlap(a[i], b[j]) =>
                  \E k \in 1 .. Len(result) :
                      result[k] = Interval_new(MaxOf(a[i].start, b[j].start),
                                               MinOf(a[i].end, b[j].end))
        /\ \A k \in 1 .. Len(result) :
              \E i \in 1 .. Len(a) : \E j \in 1 .. Len(b) :
                  /\ Overlap(a[i], b[j])
                  /\ result[k] = Interval_new(MaxOf(a[i].start, b[j].start),
                                              MinOf(a[i].end, b[j].end))

C5_Witness ==
    /\ pc = "intersect"
    /\ Len(a) = 2
    /\ Len(b) = 2
    /\ a[1].end = b[1].end
    /\ Len(result) = 2

\* C6: intersect_periods(A, complement_within(outer, B)) is exactly the part
\* of A not covered by B; outer = [0,10), A = [1,3),[5,9), B = [2,4),[7,8)
\* gives [1,2),[5,7),[8,9).
C6_BetweenExact ==
    pc = "between" =>
        /\ Chronological(result)
        /\ \A t \in Points :
              InList(t, result) <=> (InList(t, a) /\ ~InList(t, periods))
        /\ (outer = TestOuter /\ a = TestAboveMin /\ periods = TestAboveMax)
              => result = TestBetween

C6_Witness ==
    /\ pc = "between"
    /\ outer = TestOuter
    /\ a = TestAboveMin
    /\ periods = TestAboveMax
    /\ result = TestBetween


-----------------------------------------------------------------------------
(***************************************************************************)
(* Properties of the conversions.                                          *)
(***************************************************************************)

\* C7: for every ordered pair of scales (S, T) and value v, to::<T>() returns
\* T::from_jd_tt(S::to_jd_tt(v)), by exactly one call of S::to_jd_tt followed
\* by one call of T::from_jd_tt, and From/Into for the pair returns the same.
C7_ToThroughCanonical ==
    cpc = "done" =>
        /\ converted = from_jd_tt(scale_t, to_jd_tt(scale_s, quantity))
        /\ calls = <<<<"to_jd_tt", scale_s>>, <<"from_jd_tt", scale_t>>>>
        /\ via = "From" =>
               From_from(scale_s, scale_t, quantity) = converted

C7_Witness ==
    /\ cpc = "done"
    /\ via = "From"
    /\ scale_s = "UnixTime"
    /\ scale_t = "UT"
    /\ converted # quantity

\* |rt_back - rt_in|, the error of the round trip made.
RtError == FAbs(FSub(rt_back, rt_in))

\* The scales that differ from JD(TT) by a constant.
OffsetScales == {"JD", "JDE", "TT", "MJD", "TAI", "GPS"}

TOL_1E12 == Dec(1, 12)

TOL_1E9 == Dec(1, 9)

\* x = y to within tol.
Near(x, y, tol) == FLe(FAbs(FSub(x, y)), tol)

\* MJD = JD - 2400000.5, TT = TAI + 32.184 s, and GPS day 0 is
\* JD(TT) 2444244.5 + 51.184 s.
OffsetRelations ==
    rt_dir = "native" =>
        /\ rt_scale = "MJD" =>
               Near(FSub(rt_mid, rt_in), Dec(24000005, 1), TOL_1E9)
        /\ rt_scale = "TAI" =>
               Near(FSub(rt_mid, rt_in),
                    FDiv(Dec(32184, 3), SECONDS_PER_DAY), TOL_1E9)
        /\ rt_scale = "GPS" /\ rt_in = FZero =>
               rt_mid = FAdd(Dec(24442445, 1),
                             FDiv(Dec(51184, 3), SECONDS_PER_DAY))

\* C8 as stated: on the constant-offset scales both round trips return
\* their input to within 1e-12 days, and the three offsets are as named.
C8_Original ==
    rt_dir # "idle" /\ rt_scale \in OffsetScales =>
        FLe(RtError, TOL_1E12) /\ OffsetRelations

\* C8: on the constant-offset scales both round trips return their input to
\* within 1e-9 days (exactly on JD, JDE and TT, whose functions are the
\* identity), and the three offsets are as named.
C8_OffsetRoundTrip ==
    rt_dir # "idle" /\ rt_scale \in OffsetScales =>
        /\ FLe(RtError, TOL_1E9)
        /\ rt_scale \in {"JD", "JDE", "TT"} => rt_back = rt_in
        /\ OffsetRelations

C8_Witness ==
    /\ rt_dir = "native"
    /\ rt_scale = "MJD"
    /\ ~FLe(RtError, TOL_1E12)
    /\ FLe(RtError, TOL_1E9)

\* C9: UnixTime::from_jd_tt(UnixTime::to_jd_tt(v)) returns v to within 1e-9
\* days, also for v shortly after a leap-second epoch.
C9_UnixRoundTrip ==
    rt_dir = "native" /\ rt_scale = "UnixTime" => FLe(RtError, TOL_1E9)

\* C10: UT::to_jd_tt(UT::from_jd_tt(tt)) returns tt to within 1e-9 days,
\* also for tt next to the boundaries between the regimes of Delta T.
C10_UtInverseStable ==
    rt_dir = "canonical" /\ rt_scale = "UT" => FLe(RtError, TOL_1E9)


-----------------------------------------------------------------------------
(***************************************************************************)
(* Properties of the merge loop.                                           *)
(***************************************************************************)

\* The two current heads end at the same instant.
HeadsTie == a[ip_i + 1].end = b[ip_j + 1].end

\* C20: in every iteration of intersect_periods in which a[i].end = b[j].end,
\* both i and j are advanced.
C20_TieAdvancesBoth ==
    [][(pc = "merge" /\ pc' = "merge" /\ ip_guard(a, b, ip_state) /\ HeadsTie)
          => (ip_i' = ip_i + 1 /\ ip_j' = ip_j + 1)]_vars

-----------------------------------------------------------------------------
(***************************************************************************)
(* Properties of the leap-second lookup.                                   *)
(***************************************************************************)

\* The entries of LEAP_SECONDS whose epoch does not exceed q.
NotAfter(q) == {k \in 1 .. Len(LEAP_SECONDS) : FLe(LEAP_SECONDS[k][1], q)}

\* What a scan of the whole table finds: the offset of the entry with the
\* greatest epoch not exceeding q, or 10.0 when there is none.
LinearScan(q) ==
    LET found == NotAfter(q)
        k == CHOOSE n \in found :
                 \A m \in found : FLe(LEAP_SECONDS[m][1], LEAP_SECONDS[n][1])
    IN  IF found = {} THEN FromInt(10) ELSE LEAP_SECONDS[k][2]

\* C12: tai_minus_utc(q) is the offset of the entry with the greatest epoch
\* not exceeding q (an epoch equal to q counts), it is exactly 10.0 when q
\* precedes the first entry, JD 2441317.5, and it always equals the result
\* of a linear scan of LEAP_SECONDS.
C12_LookupIsLinearScan ==
    lpc = "looked_up" =>
        /\ lr1 = LinearScan(lq1)
        /\ lr2 = LinearScan(lq2)
        /\ FLt(lq1, Dec(24413175, 1)) => lr1 = FromInt(10)
        /\ \A k \in 1 .. Len(LEAP_SECONDS) :
               lq1 = LEAP_SECONDS[k][1] => lr1 = LEAP_SECONDS[k][2]

\* A query equal to an epoch of the table is answered with that entry, and
\* a query before the table with 10.
C12_Witness ==
    /\ lpc = "looked_up"
    /\ lq1 = Dec(24427785, 1)
    /\ lr1 = FromInt(15)
    /\ lq2 = FromInt(2400000)
    /\ lr2 = FromInt(10)

\* LEAP_SECONDS is strictly ascending in epoch and non-decreasing in offset,
\* and its first offset is the constant returned before the table.
LeapTableOrdered ==
    /\ \A k \in 1 .. Len(LEAP_SECONDS) - 1 :
          /\ FLt(LEAP_SECONDS[k][1], LEAP_SECONDS[k + 1][1])
          /\ FLe(LEAP_SECONDS[k][2], LEAP_SECONDS[k + 1][2])
    /\ LEAP_SECONDS[1][2] = INITIAL_TAI_MINUS_UTC

\* C13: tai_minus_utc is non-decreasing, q1 <= q2 implies
\* tai_minus_utc(q1) <= tai_minus_utc(q2); LEAP_SECONDS is strictly
\* ascending in epoch and non-decreasing in offset, and its first offset is
\* the pre-table constant 10.
C13_LookupMonotone ==
    /\ LeapTableOrdered
    /\ INITIAL_TAI_MINUS_UTC = FromInt(10)
    /\ (lpc = "looked_up" /\ FLe(lq1, lq2)) => FLe(lr1, lr2)

\* Two queries on either side of the table's epochs, the later one with the
\* larger offset.
C13_Witness ==
    /\ lpc = "looked_up"
    /\ FLt(lq1, Dec(24413175, 1))
    /\ lq2 = Dec(24577545, 1)
    /\ lr1 = FromInt(10)
    /\ lr2 = FromInt(37)

-----------------------------------------------------------------------------
(***************************************************************************)
(* Properties of Delta T.                                                  *)
(***************************************************************************)

TOL_1E6 == Dec(1, 6)

\* C14: Delta T at the epoch of the biennial table's first entry,
\* JD 2312752.5 (1620), equals that entry's value DELTA_T[0] within 1e-6 s.
C14_TableStartAnchor ==
    (dpc = "evaluated" /\ dt_jd = JD_TABLE_START_1620)
        => Near(dt_val, DELTA_T(0), TOL_1E6)

\* The years from 2026.0 to jd, counted in Julian years of 365.25 days.
YearsSince2026(jd) == FDiv(FSub(jd, JD_2026), JULIAN_YEAR)

\* Ten Julian years after 2025.0.
JD_2035 == FAdd(JD_2025, Dec(36525, 1))

-----------------------------------------------------------------------------
(***************************************************************************)
(* Properties of chained conversions.                                      *)
(***************************************************************************)

\* C11: for all scales A, B, C and every value v, A -> B -> A returns v and
\* A -> C -> B gives what A -> B gives directly, both within 1e-9 days.
C11_PathIndependent ==
    Len(h_path) = 2 =>
        /\ h_path[2] = h_scale => Near(h_now, h_value, TOL_1E9)
        /\ Near(h_now, Time_to(h_scale, h_path[2], h_value), TOL_1E9)

-----------------------------------------------------------------------------
(***************************************************************************)
(* Properties of the UTC export.                                           *)
(***************************************************************************)

\* The instant v of scale S has a chrono::DateTime<Utc>.
Representable(S, v) == Time_to_utc(S, v) # None

\* C19: neither Time::to_utc nor Interval<Time<S>>::to::<DateTime<Utc>>()
\* panics when an instant has no civil UTC timestamp: the call returns, and
\* what it returns tells the failure (None).
C19_NoAbortOnDomainFailure ==
    (u_fn # "idle" /\ ~(Representable(u_scale, u_start)
                          /\ Representable(u_scale, u_end)))
        => (u_exit = "returned" /\ u_ret = None)

-----------------------------------------------------------------------------
(* The C ABI: null pointers, status codes, panics. *)

\* C16: every exported function that takes an out pointer returns
\* NullPointer when that pointer is null, whatever its other arguments
\* are (an invalid period, an invalid date), and writes nothing.
C16_NullCheckedFirst ==
    (f_fn \in OutPointerFunctions /\ f_null) =>
        /\ f_res.exit = "returned"
        /\ f_res.status = Some(TempochStatus_NullPointer)
        /\ f_res.out = None

\* tempoch_period_mjd_new(5, 1, null) has returned NullPointer.
C16_Witness ==
    /\ f_fn = "tempoch_period_mjd_new"
    /\ f_args = <<FromInt(5), FromInt(1)>>
    /\ f_null
    /\ f_res.status = Some(TempochStatus_NullPointer)

\* The exported functions that convert to or from a civil UTC timestamp.
UtcFunctions ==
    {"tempoch_jd_from_utc", "tempoch_jd_to_utc", "tempoch_mjd_from_utc",
     "tempoch_mjd_to_utc"}

\* C17: with a non-null out, tempoch_period_mjd_new returns InvalidPeriod
\* exactly when start_mjd > end_mjd and otherwise Ok with
\* out = {start_mjd, end_mjd}; the five statuses are pairwise distinct
\* codes; and, when no panic is raised, each status is returned only for
\* its own condition: NullPointer for a null out, InvalidPeriod for
\* start > end in tempoch_period_mjd_new, NoIntersection for periods that
\* do not overlap in tempoch_period_mjd_intersection, UtcConversionFailed
\* for a conversion to or from UTC.
C17_StatusPerCondition ==
    /\ (f_fn = "tempoch_period_mjd_new" /\ ~f_null) =>
            IF FLt(f_args[2], f_args[1])
            THEN f_res.status = Some(TempochStatus_InvalidPeriod)
            ELSE /\ f_res.status = Some(TempochStatus_Ok)
                 /\ f_res.out = Some(TempochPeriodMjd(f_args[1], f_args[2]))
    /\ Cardinality({TempochStatus_Ok, TempochStatus_NullPointer,
                    TempochStatus_UtcConversionFailed,
                    TempochStatus_InvalidPeriod,
                    TempochStatus_NoIntersection}) = 5
    /\ (f_fn # "idle" /\ ~f_panic) =>
            /\ f_res.status = Some(TempochStatus_NullPointer) => f_null
            /\ f_res.status = Some(TempochStatus_InvalidPeriod) =>
                    /\ f_fn = "tempoch_period_mjd_new"
                    /\ FLt(f_args[2], f_args[1])
            /\ f_res.status = Some(TempochStatus_NoIntersection) =>
                    /\ f_fn = "tempoch_period_mjd_intersection"
                    /\ Interval_Mjd_intersection(
                           TempochPeriodMjd_to_period(f_args[1]),
                           TempochPeriodMjd_to_period(f_args[2])) = None
            /\ f_res.status = Some(TempochStatus_UtcConversionFailed) =>
                    f_fn \in UtcFunctions

-----------------------------------------------------------------------------
(* Termination of the merge. *)

\* C21: intersect_periods terminates within |a| + |b| iterations: no index
\* exceeds the length of its list, every iteration reads a[i] and b[j]
\* inside the lists and advances at least one index, and the call returns.
C21_MergeTerminates ==
    /\ [](pc \in {"merge", "merged"} =>
            /\ ip_i <= Len(a)
            /\ ip_j <= Len(b)
            /\ ip_iter <= Len(a) + Len(b))
    /\ [][(pc = "merge" /\ pc' = "merge") =>
            /\ ip_i + 1 \in DOMAIN a
            /\ ip_j + 1 \in DOMAIN b
            /\ ip_i' >= ip_i
            /\ ip_j' >= ip_j
            /\ ip_i' + ip_j' > ip_i + ip_j]_vars
    /\ (pc = "merge" ~> pc = "merged")

\* A merge of two lists of two periods that has returned after three
\* iterations.
C21_Witness ==
    /\ pc = "merged"
    /\ Len(a) = 2
    /\ Len(b) = 2
    /\ ip_iter = 3

-----------------------------------------------------------------------------
(* The regimes of Delta T. *)

\* The regime the ranges of the documentation give to a UT day count.
RegimeOf(jd) ==
    CASE FLt(jd, Dec(20673145, 1)) -> "ancient"
      [] FLe(Dec(20673145, 1), jd) /\ FLt(jd, Dec(23054475, 1)) -> "medieval"
      [] FLe(Dec(23054475, 1), jd) /\ FLt(jd, Dec(24486225, 1)) -> "table"
      [] FLe(Dec(24486225, 1), jd) /\ FLt(jd, Dec(24610415, 1)) -> "observed"
      [] FLe(Dec(24610415, 1), jd) -> "extrapolated"

\* The ranges that hold jd: exactly one when they are disjoint and cover
\* the axis.
RegimesHolding(jd) ==
    {r \in {"ancient", "medieval", "table", "observed", "extrapolated"} :
        \/ r = "ancient" /\ FLt(jd, Dec(20673145, 1))
        \/ r = "medieval" /\ FLe(Dec(20673145, 1), jd)
                          /\ FLt(jd, Dec(23054475, 1))
        \/ r = "table" /\ FLe(Dec(23054475, 1), jd)
                       /\ FLt(jd, Dec(24486225, 1))
        \/ r = "observed" /\ FLe(Dec(24486225, 1), jd)
                          /\ FLt(jd, Dec(24610415, 1))
        \/ r = "extrapolated" /\ FLe(Dec(24610415, 1), jd)}

RegimeValue(r, jd) ==
    CASE r = "ancient"      -> delta_t_ancient(jd)
      [] r = "medieval"     -> delta_t_medieval(jd)
      [] r = "table"        -> delta_t_table(jd)
      [] r = "observed"     -> delta_t_observed(jd)
      [] r = "extrapolated" -> delta_t_extrapolated(jd)

-----------------------------------------------------------------------------
(* The index of delta_t_table. *)

\* C23: for every argument, dates before the first epoch of the table and
\* after its last included, delta_t_table reads DELTA_T at i, i + 1 and
\* i + 2 with 0 <= i <= TERMS - 3, so that i + 2 is at most the last index,
\* 186; dates before 1620 read the first three entries and dates from the
\* epoch of entry TERMS - 3 on read the last three.
C23_TableIndexInBounds ==
    dpc = "table" =>
        /\ 0 <= dt_idx
        /\ dt_idx <= TERMS - 3
        /\ dt_idx + 2 <= 186
        /\ {dt_idx + 1, dt_idx + 2, dt_idx + 3} \subseteq DOMAIN DELTA_T_F64
        /\ FLt(dt_jd, JD_TABLE_START_1620) => dt_idx = 0
        /\ FLe(FAdd(JD_TABLE_START_1620,
                    FMul(BIENNIAL_STEP_D, FromInt(TERMS - 3))), dt_jd)
               => dt_idx = TERMS - 3

\* delta_t_table(2 449 356.0), the call of delta_t_table_upper_clip, has
\* read the last three entries.
C23_Witness ==
    /\ dpc = "table"
    /\ dt_jd = FromInt(2449356)
    /\ dt_idx = 184

\* C24: UT::from_jd_tt terminates after exactly three evaluations of Delta T.
\* It starts from ut = jd_tt, each pass sets ut to jd_tt minus Delta T at the
\* current ut (in days), and no pass is skipped when ut has stopped moving:
\* the value returned is the third iterate.
C24_ThreePasses ==
    /\ [](dpc \in {"ut_loop", "ut_returned"} =>
            /\ ut_evals <= 3
            /\ Len(ut_hist) = ut_evals + 1
            /\ ut_hist[1] = ut_jd_tt
            /\ ut_now = ut_hist[Len(ut_hist)])
    /\ [](dpc = "ut_returned" =>
            /\ ut_evals = 3
            /\ \A k \in 1 .. 3 :
                  ut_hist[k + 1] =
                      FSub(ut_jd_tt, seconds_to_days(delta_t_seconds(ut_hist[k])))
            /\ ut_now = Eval(<<"from_jd_tt", "UT", ut_jd_tt>>))
    /\ (dpc = "ut_loop" ~> dpc = "ut_returned")

\* A call that returned after a third pass although the second pass had
\* already left ut unchanged.
C24_Witness ==
    /\ dpc = "ut_returned"
    /\ ut_evals = 3
    /\ ut_hist[3] = ut_hist[2]
    /\ ut_hist[2] # ut_hist[1]

\* C25: the recent regime returns every anchor value exactly at its anchor
\* epoch: delta_t_observed returns OBSERVED_DT[k] when the fractional year
\* of its argument is 1992 + k, for k in 0..33 (63.83 s at 2000.0), and
\* delta_t_recent returns 56.86, 63.83 and 70.0 s at its anchors a decade
\* before, at, and a decade after JD_YEAR_2000_UT.
C25_AnchorsExact ==
    /\ dpc = "delta_t_observed" =>
          LET year == delta_t_year(dt_jd)
          IN  \A k \in 0 .. 33 :
                  year = FromInt(1992 + k) => dt_val = OBSERVED_DT_F64[k + 1]
    /\ (dpc = "delta_t_observed" /\ dt_jd = J2000) => dt_val = Dec(6383, 2)
    /\ dpc = "delta_t_recent" =>
          \A d \in -1 .. 1 :
              dt_jd = FAdd(JD_YEAR_2000_UT, FMul(DECADE_D, FromInt(d)))
                  => dt_val = <<Dec(5686, 2), Dec(6383, 2), FromInt(70)>>[d + 2]

\* delta_t_observed called at the 2019 anchor, between two entries that
\* differ, where interpolation has both neighbours to read.
C25_Witness ==
    /\ dpc = "delta_t_observed"
    /\ delta_t_year(dt_jd) = FromInt(2019)
    /\ dt_val = OBSERVED_DT_F64[28]
    /\ OBSERVED_DT_F64[29] # OBSERVED_DT_F64[28]

-----------------------------------------------------------------------------
(***************************************************************************)
(* Properties of the inverse of the Unix scale.                            *)
(***************************************************************************)

\* The JD(TT) that UnixTime::from_jd_tt was called on in the round trip made.
UnixInverseArg == IF rt_dir = "native" THEN rt_mid ELSE rt_in

\* What that call returned.
UnixInverseRet == IF rt_dir = "native" THEN rt_back ELSE rt_mid

\* The estimate jd_tt - (37 + 32.184) s.
UnixEstimate == FSub(UnixInverseArg, UNIX_LARGEST_OFFSET)

\* jd_tt minus the offset of the table at the estimate and 32.184 s.
UnixRefined ==
    FSub(UnixInverseArg,
         FDiv(FAdd(tai_minus_utc_at(UnixEstimate), TT_MINUS_TAI_SECS),
              SECONDS_PER_DAY))

\* A leap-second epoch of the table lies after x and not after y.
LeapEpochBetween(x, y) ==
    \E k \in 1 .. Len(LEAP_SECONDS) :
        FLt(x, LEAP_SECONDS[k][1]) /\ FLe(LEAP_SECONDS[k][1], y)

\* A round trip through the Unix scale was made.
UnixTrip == rt_dir # "idle" /\ rt_scale = "UnixTime"

-----------------------------------------------------------------------------
(***************************************************************************)
(* Properties of the conversion of a period to another scale.              *)
(***************************************************************************)

\* C27: converting a period to another scale keeps its order: for a period
\* p of scale S with p.start <= p.end and every target scale T,
\* p.to::<T>() has start <= end.
C27_PeriodOrderKept ==
    u_fn = "period_to_scale" /\ FLe(u_start, u_end) =>
        FLe(u_ret.start, u_ret.end)

-----------------------------------------------------------------------------
(* Properties of the gaps of complement_within on periods that need not    *)
(* lie inside the bounding period.                                         *)

\* C28 as stated: for every bounding interval and every sorted,
\* non-overlapping list of periods, inside the bounding interval or not,
\* every gap g returned by complement_within has
\* outer.start <= g.start < g.end <= outer.end.
C28_Original ==
    pc = "complement" =>
        \A g \in 1 .. Len(gaps) :
            /\ outer.start <= gaps[g].start
            /\ gaps[g].start < gaps[g].end
            /\ gaps[g].end <= outer.end

\* C28 as amended: every gap g returned by complement_within has
\* outer.start <= g.start < g.end, and g.end <= outer.end when no period
\* starts after outer.end; a gap that ends after outer.end ends at the start
\* of such a period.
C28_GapsBounded ==
    pc = "complement" =>
        \A g \in 1 .. Len(gaps) :
            /\ outer.start <= gaps[g].start
            /\ gaps[g].start < gaps[g].end
            /\ (\A k \in 1 .. Len(periods) : periods[k].start <= outer.end)
                  => gaps[g].end <= outer.end
            /\ gaps[g].end > outer.end =>
                  \E k \in 1 .. Len(periods) : periods[k].start = gaps[g].end

\* A period that starts before the bounding period and one that ends after
\* it, neither starting after outer.end, with a gap between them.
C28_Witness ==
    /\ pc = "complement"
    /\ Len(periods) = 2
    /\ periods[1].start < outer.start
    /\ periods[2].end > outer.end
    /\ periods[2].start <= outer.end
    /\ Len(gaps) = 1
    /\ gaps[1].end <= outer.end

-----------------------------------------------------------------------------
(* The frame of the exported functions that return a status. *)

\* The exported functions C29 is about.
StatusOutFunctions ==
    {"tempoch_period_mjd_new", "tempoch_period_mjd_intersection"}
        \cup UtcFunctions

\* C29: when tempoch_period_mjd_new, tempoch_period_mjd_intersection,
\* tempoch_jd_from_utc, tempoch_jd_to_utc, tempoch_mjd_from_utc or
\* tempoch_mjd_to_utc returns a status other than Ok, *out is left unchanged:
\* *out is written exactly when the status returned is Ok (and a call that
\* does not return writes nothing either).
C29_OutWrittenIffOk ==
    f_fn \in StatusOutFunctions =>
        /\ f_res.exit \in {"returned", "caught"} =>
              /\ f_res.status # None
              /\ f_res.out # None <=> f_res.status = Some(TempochStatus_Ok)
        /\ f_res.exit \in PanicEscapes => f_res.out = None

\* tempoch_jd_to_utc was given a writable out and a Julian Date that has no
\* civil timestamp: it returned UtcConversionFailed and wrote nothing.
C29_Witness ==
    /\ f_fn = "tempoch_jd_to_utc"
    /\ ~f_null
    /\ ~f_panic
    /\ f_res.exit = "returned"
    /\ f_res.status = Some(TempochStatus_UtcConversionFailed)
    /\ f_res.out = None

-----------------------------------------------------------------------------
(* Delta T across the regime boundaries. *)

\* C30: at each of JD 2067314.5, 2305447.5, 2448622.5 and 2461041.5 the
\* regime below the boundary and the regime above it, both evaluated at the
\* boundary, give values of Delta T less than one second apart.
C30_NoJumpAtBoundaries ==
    dpc = "boundary" => FLt(FAbs(FSub(dt_above, dt_val)), FromInt(1))

=============================================================================
